---- MODULE Spec2Model ----
(***************************************************************************)
(* llminfo-cli: the file-backed model cache (llminfo_cli/cache.py) and the *)
(* configuration-based provider (llminfo_cli/providers/generic.py) with    *)
(* its response parsers and error classes.                                 *)
(*                                                                         *)
(* Time is counted in whole hours.  Python values carry a "py" tag, JSON   *)
(* text carries a "js" tag, so that model_dump / json.dumps / json.loads / *)
(* ModelInfo(m) are real conversions between different representations.  *)
(***************************************************************************)
EXTENDS Integers, Sequences, FiniteSets, TLC

VARIABLES
    now,        \* datetime.now(), in hours
    environ,    \* os.environ restricted to the api_key_env names
    files,      \* the cache directory: cache file path -> file content
    self,       \* the GenericProvider object in use (NoProvider before __init__)
    last,       \* the last completed call: operation, arguments, outcome
    http,       \* the outbound HTTP requests issued by the last call
    cache_ops,  \* the CacheManager methods the last provider call invoked
    entry,      \* per provider name, what the calls made so far left in its
                \* cache file: nothing, the list and time of a completed set,
                \* or the remains of a set whose write failed
    disk,       \* the text of one cache file, chunk by chunk, while several
                \* CacheManager.set calls on its provider name overlap
    writers,    \* those set calls: position in the code, list, text to write
    catalogs,   \* the provider catalogs: the built-in providers.yml and the
                \* user's ~/.config/llminfo/providers.yml
    listing     \* the run of `list models` under way: position in its loop,
                \* the requests awaiting their response, the calls returned

vars ==
    <<now, environ, files, self, last, http, cache_ops, entry, disk, writers, catalogs,
      listing>>

(***************************************************************************)
(* Bounds of the model.                                                    *)
(***************************************************************************)
MaxTime == 2

ProviderNames == {"groq", "openrouter"}

(***************************************************************************)
(* Python values.                                                          *)
(***************************************************************************)
None == [py |-> "None"]
PyStr(s) == [py |-> "str", s |-> s]
PyInt(n) == [py |-> "int", n |-> n]
PyList(seq) == [py |-> "list", items |-> seq]
PyDict(d) == [py |-> "dict", d |-> d]

\* dict.get(key, default)
dict_get(d, key, default) == IF key \in DOMAIN d.d THEN d.d[key] ELSE default

(***************************************************************************)
(* JSON text, as the tree json.dumps writes and json.loads reads.  A file  *)
(* or body that is no JSON document is NotJson.                            *)
(***************************************************************************)
JNull == [js |-> "null"]
JString(s) == [js |-> "string", s |-> s]
JNumber(n) == [js |-> "number", n |-> n]
JArray(seq) == [js |-> "array", items |-> seq]
JObject(d) == [js |-> "object", d |-> d]
NotJson == [js |-> "invalid"]

RECURSIVE json_dumps(_)
json_dumps(x) ==
    CASE x.py = "None" -> JNull
      [] x.py = "str"  -> JString(x.s)
      [] x.py = "int"  -> JNumber(x.n)
      [] x.py = "list" -> JArray([i \in DOMAIN x.items |-> json_dumps(x.items[i])])
      [] x.py = "dict" -> JObject([k \in DOMAIN x.d |-> json_dumps(x.d[k])])

RECURSIVE json_loads(_)
json_loads(t) ==
    CASE t.js = "null"   -> None
      [] t.js = "string" -> PyStr(t.s)
      [] t.js = "number" -> PyInt(t.n)
      [] t.js = "array"  -> PyList([i \in DOMAIN t.items |-> json_loads(t.items[i])])
      [] t.js = "object" -> PyDict([k \in DOMAIN t.d |-> json_loads(t.d[k])])

(***************************************************************************)
(* Outcomes of a call: a returned value or a raised exception.             *)
(***************************************************************************)
Return(value) == [kind |-> "return", value |-> value]
Raise(error) == [kind |-> "raise", error |-> error]

\* exceptions of the standard library and of pydantic
JSONDecodeError == [type |-> "JSONDecodeError", base |-> "ValueError"]
ValidationError == [type |-> "ValidationError", base |-> "ValueError"]
KeyError(key) == [type |-> "KeyError", base |-> "LookupError", key |-> key]
TypeError == [type |-> "TypeError", base |-> "Exception"]
AttributeError == [type |-> "AttributeError", base |-> "Exception"]
OSError == [type |-> "OSError", base |-> "Exception"]
ValueError(message) == [type |-> "ValueError", base |-> "Exception", message |-> message]

(***************************************************************************)
(* schemas.py                                                              *)
(***************************************************************************)
ModelInfo(id, name, context_length, pricing) ==
    [cls |-> "ModelInfo", id |-> id, name |-> name,
     context_length |-> context_length, pricing |-> pricing]

\* pydantic validation of ModelInfo(m): id and name are required strings,
\* context_length is an int or None, pricing a dict or None; extra keys are ignored
ModelInfo_valid(m) ==
    /\ m.py = "dict"
    /\ "id" \in DOMAIN m.d /\ m.d["id"].py = "str"
    /\ "name" \in DOMAIN m.d /\ m.d["name"].py = "str"
    /\ dict_get(m, "context_length", None).py \in {"int", "None"}
    /\ dict_get(m, "pricing", None).py \in {"dict", "None"}

ModelInfo_from_dict(m) ==
    ModelInfo(m.d["id"].s, m.d["name"].s,
              dict_get(m, "context_length", None), dict_get(m, "pricing", None))

model_dump(m) ==
    PyDict([id |-> PyStr(m.id), name |-> PyStr(m.name),
            context_length |-> m.context_length, pricing |-> m.pricing])

(***************************************************************************)
(* Inputs: the ModelInfo lists handed to the cache.                        *)
(***************************************************************************)
Model1 == ModelInfo("model1", "Model 1", PyInt(1000), None)
Model2 == ModelInfo("model2", "Model 2", None, PyDict([prompt |-> PyStr("0.0")]))

ModelLists == {<<>>, <<Model1>>, <<Model1, Model2>>, <<Model2, Model1>>}

(***************************************************************************)
(* cache.py                                                                *)
(***************************************************************************)
ttl_hours_default == 1

CACHE_DIR == "~/.cache/llminfo"

\* timedelta(hours=ttl_hours), in hours
CACHE_TTL(ttl_hours) == ttl_hours

CacheManager(ttl_hours) == [CACHE_TTL |-> CACHE_TTL(ttl_hours)]

\* A variant of _get_cache_file that keeps one file for all providers
_get_cache_file_shared(provider_name) == CACHE_DIR \o "/" \o "models.json"

\* self.CACHE_DIR / f"{provider_name}_models.json"
_get_cache_file(provider_name) == CACHE_DIR \o "/" \o provider_name \o "_models.json"

CacheFiles == {_get_cache_file(p) : p \in ProviderNames}

\* what a path of the cache directory holds
NoFile == [kind |-> "absent"]
File(text) == [kind |-> "file", text |-> text]

exists(fs, path) == fs[path].kind = "file"

\* datetime.isoformat() and datetime.fromisoformat()
isoformat(t) == "2026-01-01T" \o ToString(t) \o ":00:00"

fromisoformat(s) == CHOOSE t \in 0..(MaxTime + 1) : isoformat(t) = s

\* the dictionary CacheManager.set serializes
cache_data_of(t, provider_name, models) ==
    PyDict([cached_at |-> PyStr(isoformat(t)),
            provider |-> PyStr(provider_name),
            models |-> PyList([i \in DOMAIN models |-> model_dump(models[i])])])

\* datetime.now() - cached_at > self.CACHE_TTL
\* Variants of the expiry test of line 39: one that already expires an entry whose
\* age equals the TTL, one with the operands of the subtraction exchanged
expired_at_ttl(cache_manager, t, cached_at) == t - cached_at >= cache_manager.CACHE_TTL

expired_never(cache_manager, t, cached_at) == cached_at - t > cache_manager.CACHE_TTL

\* datetime.now() - cached_at > self.CACHE_TTL
expired(cache_manager, t, cached_at) == t - cached_at > cache_manager.CACHE_TTL

\* A variant of CacheManager.get that treats a file it cannot decode as a miss
CacheManager_get_tolerant(cache_manager, fs, t, provider_name) ==
    LET cache_file == _get_cache_file(provider_name) IN
    IF ~exists(fs, cache_file) THEN Return(None)
    ELSE IF fs[cache_file].text = NotJson THEN Return(None)
    ELSE
        LET cache_data == json_loads(fs[cache_file].text)
            ms == cache_data.d["models"].items
        IN  IF expired(cache_manager, t, fromisoformat(cache_data.d["cached_at"].s))
                THEN Return(None)
                ELSE Return(PyList([i \in DOMAIN ms |-> ModelInfo_from_dict(ms[i])]))

\* CacheManager.get: the outcome of the call; the files are only read
CacheManager_get(cache_manager, fs, t, provider_name) ==
    LET cache_file == _get_cache_file(provider_name) IN
    IF ~exists(fs, cache_file) THEN Return(None)
    ELSE IF fs[cache_file].text = NotJson THEN Raise(JSONDecodeError)
    ELSE
        LET cache_data == json_loads(fs[cache_file].text) IN
        IF "cached_at" \notin DOMAIN cache_data.d THEN Raise(KeyError("cached_at"))
        ELSE IF expired(cache_manager, t, fromisoformat(cache_data.d["cached_at"].s))
            THEN Return(None)
        ELSE IF "models" \notin DOMAIN cache_data.d THEN Raise(KeyError("models"))
        ELSE
            LET ms == cache_data.d["models"].items IN
            IF \E i \in DOMAIN ms : ~ModelInfo_valid(ms[i]) THEN Raise(ValidationError)
            ELSE Return(PyList([i \in DOMAIN ms |-> ModelInfo_from_dict(ms[i])]))

\* The outcomes the file system gives the two steps of CacheManager.set:
\* aiofiles.open(cache_file, 'w') creates or truncates the file, f.write fills it.
SetIO == {"ok", "open_fails", "write_fails"}

\* A variant of CacheManager.set that opens the file with 'a': a second document
\* after the first leaves text that is no JSON document
CacheManager_set_append(fs, t, provider_name, models, io) ==
    LET cache_file == _get_cache_file(provider_name)
        cache_data == cache_data_of(t, provider_name, models)
    IN CASE io = "open_fails" ->
              [files |-> fs, outcome |-> Raise(OSError)]
         [] io = "write_fails" ->
              [files |-> [fs EXCEPT ![cache_file] = File(NotJson)],
               outcome |-> Raise(OSError)]
         [] io = "ok" ->
              [files |-> [fs EXCEPT ![cache_file] =
                             IF exists(fs, cache_file) THEN File(NotJson)
                             ELSE File(json_dumps(cache_data))],
               outcome |-> Return(None)]

\* CacheManager.set: the files after the call and its outcome
CacheManager_set(fs, t, provider_name, models, io) ==
    LET cache_file == _get_cache_file(provider_name)
        cache_data == cache_data_of(t, provider_name, models)
    IN CASE io = "open_fails" ->
              [files |-> fs, outcome |-> Raise(OSError)]
         [] io = "write_fails" ->
              [files |-> [fs EXCEPT ![cache_file] = File(NotJson)],
               outcome |-> Raise(OSError)]
         [] io = "ok" ->
              [files |-> [fs EXCEPT ![cache_file] = File(json_dumps(cache_data))],
               outcome |-> Return(None)]

\* The outcomes of cache_file.unlink(): the file is removed, or OSError is raised
UnlinkIO == {"ok", "fails"}

\* A variant of CacheManager.invalidate that unlinks without the exists() test and
\* without the try block
CacheManager_invalidate_unguarded(fs, provider_name, io) ==
    LET cache_file == _get_cache_file(provider_name) IN
    IF exists(fs, cache_file) /\ io = "ok"
        THEN [files |-> [fs EXCEPT ![cache_file] = NoFile], outcome |-> Return(None)]
        ELSE [files |-> fs, outcome |-> Raise(OSError)]

\* CacheManager.invalidate: the files after the call; OSError is swallowed
CacheManager_invalidate(fs, provider_name, io) ==
    LET cache_file == _get_cache_file(provider_name) IN
    IF exists(fs, cache_file) /\ io = "ok"
        THEN [files |-> [fs EXCEPT ![cache_file] = NoFile], outcome |-> Return(None)]
        ELSE [files |-> fs, outcome |-> Return(None)]

(***************************************************************************)
(* What the completed calls left in a provider's cache file.               *)
(***************************************************************************)
NoEntry == [kind |-> "none"]
Entry(models, t) == [kind |-> "entry", models |-> PyList(models), at |-> t]
Truncated == [kind |-> "truncated"]

entry_after_set(e, t, models, io) ==
    CASE io = "ok" -> Entry(models, t)
      [] io = "write_fails" -> Truncated
      [] io = "open_fails" -> e

entry_after_invalidate(e, io) == IF io = "ok" THEN NoEntry ELSE e

(***************************************************************************)
(* errors.py                                                               *)
(***************************************************************************)
APIError(message, status_code, provider) ==
    [type |-> "APIError", base |-> "LLMInfoError", message |-> message,
     status_code |-> status_code, provider |-> provider]

RateLimitError(message, retry_after, provider) ==
    [type |-> "RateLimitError", base |-> "APIError", message |-> message,
     retry_after |-> retry_after, status_code |-> 429, provider |-> provider]

AuthenticationError(message, provider) ==
    [type |-> "AuthenticationError", base |-> "APIError", message |-> message,
     status_code |-> 401, provider |-> provider]

NetworkError(message, original_error) ==
    [type |-> "NetworkError", base |-> "LLMInfoError", message |-> message,
     original_error |-> original_error]

(***************************************************************************)
(* providers/parsers.py                                                    *)
(***************************************************************************)
CreditInfo(total_credits, usage, remaining) ==
    [cls |-> "CreditInfo", total_credits |-> total_credits, usage |-> usage,
     remaining |-> remaining]

OpenAICompatibleParser(model_path) ==
    [cls |-> "OpenAICompatibleParser", model_path |-> model_path, credit_path |-> None]

OpenRouterParser == [cls |-> "OpenRouterParser"]

\* the keyword arguments a parser hands to ModelInfo(...), validated by pydantic
ModelInfo_new(id, name, context_length, pricing) ==
    LET m == PyDict([id |-> id, name |-> name, context_length |-> context_length,
                     pricing |-> pricing])
    IN IF ModelInfo_valid(m) THEN Return(ModelInfo_from_dict(m))
       ELSE Raise(ValidationError)

\* a list comprehension over entries: the first exception raised, or the list
comprehension(results) ==
    IF \E i \in DOMAIN results : results[i].kind = "raise"
        THEN results[CHOOSE i \in DOMAIN results :
                        /\ results[i].kind = "raise"
                        /\ \A j \in DOMAIN results : results[j].kind = "raise" => i <= j]
        ELSE Return(PyList([i \in DOMAIN results |-> results[i].value]))

\* A variant of the entry conversion that takes the entry's own name
OpenAICompatibleParser_entry_own_name(m) ==
    IF m.py # "dict" THEN Raise(AttributeError)
    ELSE ModelInfo_new(dict_get(m, "id", PyStr("")),
                       dict_get(m, "name", dict_get(m, "id", PyStr(""))),
                       dict_get(m, "context_length", None), dict_get(m, "pricing", None))

OpenAICompatibleParser_entry(m) ==
    IF m.py # "dict" THEN Raise(AttributeError)
    ELSE ModelInfo_new(dict_get(m, "id", PyStr("")), dict_get(m, "id", PyStr("")),
                       dict_get(m, "context_length", None), dict_get(m, "pricing", None))

OpenAICompatibleParser_parse_models(parser, response) ==
    IF response.py # "dict" THEN Raise(AttributeError)
    ELSE LET data == dict_get(response, parser.model_path, PyList(<<>>)) IN
         IF data.py = "list"
             THEN comprehension([i \in DOMAIN data.items |->
                                    OpenAICompatibleParser_entry(data.items[i])])
             ELSE Return(PyList(<<>>))

OpenAICompatibleParser_parse_credits(parser, response) == Return(None)

\* A variant of the entry conversion that skips the fields an entry lacks
OpenRouterParser_entry_defaulting(m) ==
    IF m.py # "dict" THEN Raise(TypeError)
    ELSE ModelInfo_new(dict_get(m, "id", PyStr("")), dict_get(m, "name", PyStr("")),
                       dict_get(m, "context_length", None), dict_get(m, "pricing", None))

OpenRouterParser_entry(m) ==
    IF m.py # "dict" THEN Raise(TypeError)
    ELSE IF "id" \notin DOMAIN m.d THEN Raise(KeyError("id"))
    ELSE IF "name" \notin DOMAIN m.d THEN Raise(KeyError("name"))
    ELSE ModelInfo_new(m.d["id"], m.d["name"],
                       dict_get(m, "context_length", None), dict_get(m, "pricing", None))

\* A variant of parse_models that tests isinstance(data, list) as the
\* OpenAI-compatible parser does
OpenRouterParser_parse_models_lenient(response) ==
    IF response.py # "dict" THEN Raise(AttributeError)
    ELSE LET data == dict_get(response, "data", PyList(<<>>)) IN
         IF data.py = "list"
             THEN comprehension([i \in DOMAIN data.items |->
                                    IF data.items[i].py # "dict" THEN Raise(TypeError)
                                    ELSE ModelInfo_new(dict_get(data.items[i], "id", None),
                                                       dict_get(data.items[i], "name", None),
                                                       dict_get(data.items[i], "context_length", None),
                                                       dict_get(data.items[i], "pricing", None))])
             ELSE Return(PyList(<<>>))

\* iterating data: a list gives its entries, a str its characters, a dict its
\* keys (both str, which m["id"] rejects), anything else is not iterable
OpenRouterParser_parse_models(response) ==
    IF response.py # "dict" THEN Raise(AttributeError)
    ELSE LET data == dict_get(response, "data", PyList(<<>>)) IN
         CASE data.py = "list" ->
                comprehension([i \in DOMAIN data.items |-> OpenRouterParser_entry(data.items[i])])
           [] data.py = "str" ->
                IF data.s = "" THEN Return(PyList(<<>>)) ELSE Raise(TypeError)
           [] data.py = "dict" ->
                IF DOMAIN data.d = {} THEN Return(PyList(<<>>)) ELSE Raise(TypeError)
           [] OTHER -> Raise(TypeError)

\* A variant of parse_credits that never reports less than nothing remaining
OpenRouterParser_parse_credits_clamped(response) ==
    IF response.py # "dict" THEN Raise(AttributeError)
    ELSE LET data == dict_get(response, "data", PyDict(<<>>)) IN
         IF data.py # "dict" THEN Raise(AttributeError)
         ELSE LET total_credits == dict_get(data, "total_credits", PyInt(0))
                  total_usage == dict_get(data, "total_usage", PyInt(0))
              IN IF total_credits.py # "int" \/ total_usage.py # "int"
                     THEN Raise(TypeError)
                     ELSE Return(CreditInfo(total_credits.n, total_usage.n,
                                            IF total_credits.n < total_usage.n THEN 0
                                            ELSE total_credits.n - total_usage.n))

OpenRouterParser_parse_credits(response) ==
    IF response.py # "dict" THEN Raise(AttributeError)
    ELSE LET data == dict_get(response, "data", PyDict(<<>>)) IN
         IF data.py # "dict" THEN Raise(AttributeError)
         ELSE LET total_credits == dict_get(data, "total_credits", PyInt(0))
                  total_usage == dict_get(data, "total_usage", PyInt(0))
              IN IF total_credits.py # "int" \/ total_usage.py # "int"
                     THEN Raise(TypeError)
                     ELSE Return(CreditInfo(total_credits.n, total_usage.n,
                                            total_credits.n - total_usage.n))

parse_models(parser, response) ==
    IF parser.cls = "OpenRouterParser"
        THEN OpenRouterParser_parse_models(response)
        ELSE OpenAICompatibleParser_parse_models(parser, response)

parse_credits(parser, response) ==
    IF parser.cls = "OpenRouterParser"
        THEN OpenRouterParser_parse_credits(response)
        ELSE OpenAICompatibleParser_parse_credits(parser, response)

(***************************************************************************)
(* providers/generic.py                                                    *)
(***************************************************************************)
cache_ttl_hours_default == 1

timeout_seconds == 30

\* Python truthiness of an Optional[str]
truthy(x) == x.py = "str" /\ x.s # ""

\* os.environ.get(name)
environ_get(env, name) == IF name \in DOMAIN env THEN env[name] ELSE None

\* A variant of the key resolution in which the environment wins over the argument
resolve_api_key_env_first(api_key, env, api_key_env) ==
    IF truthy(environ_get(env, api_key_env)) THEN environ_get(env, api_key_env) ELSE api_key

\* api_key or os.environ.get(api_key_env)
resolve_api_key(api_key, env, api_key_env) ==
    IF truthy(api_key) THEN api_key ELSE environ_get(env, api_key_env)

\* GenericProvider.__init__
GenericProvider(provider_name, base_url, api_key_env, models_endpoint, parser, api_key, credits_endpoint, cache_ttl_hours, env) ==
    [cls |-> "GenericProvider",
     provider_name_value |-> provider_name,
     base_url |-> base_url,
     api_key_env |-> api_key_env,
     api_key |-> resolve_api_key(api_key, env, api_key_env),
     models_endpoint |-> models_endpoint,
     parser |-> parser,
     credits_endpoint |-> credits_endpoint,
     cache_manager |-> CacheManager(cache_ttl_hours)]

\* client.get(f"{base_url}{endpoint}", headers={"Authorization": f"Bearer {api_key}"},
\*            timeout=30.0)
client_get(provider, endpoint) ==
    [method |-> "GET",
     url |-> provider.base_url \o endpoint,
     headers |-> [Authorization |-> "Bearer " \o provider.api_key.s],
     timeout |-> timeout_seconds]

\* response.raise_for_status() raises httpx.HTTPStatusError unless the status is 2xx
is_success(status_code) == 200 <= status_code /\ status_code <= 299

\* response.json()
response_json(response) ==
    IF response.body = NotJson THEN Raise(JSONDecodeError)
    ELSE Return(json_loads(response.body))

\* A variant of the HTTPStatusError handler without the branch for 429
on_HTTPStatusError_no_429(provider, status_code) ==
    CASE status_code = 401 ->
            AuthenticationError(
                "Authentication failed for provider " \o provider.provider_name_value,
                provider.provider_name_value)
      [] OTHER ->
            APIError(
                "API request failed with status " \o ToString(status_code)
                    \o " for provider " \o provider.provider_name_value,
                status_code, provider.provider_name_value)

\* except httpx.HTTPStatusError
on_HTTPStatusError(provider, status_code) ==
    CASE status_code = 401 ->
            AuthenticationError(
                "Authentication failed for provider " \o provider.provider_name_value,
                provider.provider_name_value)
      [] status_code = 429 ->
            RateLimitError(
                "Rate limit exceeded for provider " \o provider.provider_name_value,
                None, provider.provider_name_value)
      [] OTHER ->
            APIError(
                "API request failed with status " \o ToString(status_code)
                    \o " for provider " \o provider.provider_name_value,
                status_code, provider.provider_name_value)

\* except httpx.RequestError
on_RequestError(provider, e) ==
    NetworkError("Network error occurred for provider " \o provider.provider_name_value, e)

\* the try block up to `data = response.json()`, once the response (or the
\* transport failure) is in: the decoded body, or the exception raised
round_trip(provider, response) ==
    IF response.kind = "error"
        THEN Raise(on_RequestError(provider, response.error))
    ELSE IF ~is_success(response.status_code)
        THEN Raise(on_HTTPStatusError(provider, response.status_code))
    ELSE response_json(response)

no_api_key(provider) ==
    Raise(ValueError(provider.api_key_env \o " environment variable not set"))

\* A variant of get_models that writes the cache only when use_cache is true
GenericProvider_get_models_write_gated(provider, fs, t, use_cache, response, io) ==
    LET name == provider.provider_name_value
        cached == CacheManager_get(provider.cache_manager, fs, t, name)
        request == client_get(provider, provider.models_endpoint)
        data == round_trip(provider, response)
        models == IF data.kind = "raise" THEN data
                  ELSE parse_models(provider.parser, data.value)
        stored == CacheManager_set(fs, t, name, models.value.items, io)
    IN  IF ~truthy(provider.api_key)
            THEN [files |-> fs, outcome |-> no_api_key(provider),
                  http |-> <<>>, cache_ops |-> <<>>]
        ELSE IF use_cache /\ cached.kind = "raise"
            THEN [files |-> fs, outcome |-> cached,
                  http |-> <<>>, cache_ops |-> <<"get">>]
        ELSE IF use_cache /\ cached.value # None
            THEN [files |-> fs, outcome |-> cached,
                  http |-> <<>>, cache_ops |-> <<"get">>]
        ELSE IF models.kind = "raise"
            THEN [files |-> fs, outcome |-> models, http |-> <<request>>,
                  cache_ops |-> IF use_cache THEN <<"get">> ELSE <<>>]
        ELSE IF ~use_cache
            THEN [files |-> fs, outcome |-> models, http |-> <<request>>,
                  cache_ops |-> <<>>]
        ELSE [files |-> stored.files,
              outcome |-> IF stored.outcome.kind = "raise" THEN stored.outcome ELSE models,
              http |-> <<request>>,
              cache_ops |-> <<"get", "set">>]

\* A variant of get_models that consults the cache before it tests the key
GenericProvider_get_models_cache_first(provider, fs, t, use_cache, response, io) ==
    LET name == provider.provider_name_value
        cached == CacheManager_get(provider.cache_manager, fs, t, name)
        request == client_get(provider, provider.models_endpoint)
        data == round_trip(provider, response)
        models == IF data.kind = "raise" THEN data
                  ELSE parse_models(provider.parser, data.value)
        stored == CacheManager_set(fs, t, name, models.value.items, io)
    IN  IF use_cache /\ cached.kind = "raise"
            THEN [files |-> fs, outcome |-> cached,
                  http |-> <<>>, cache_ops |-> <<"get">>]
        ELSE IF use_cache /\ cached.value # None
            THEN [files |-> fs, outcome |-> cached,
                  http |-> <<>>, cache_ops |-> <<"get">>]
        ELSE IF ~truthy(provider.api_key)
            THEN [files |-> fs, outcome |-> no_api_key(provider), http |-> <<>>,
                  cache_ops |-> IF use_cache THEN <<"get">> ELSE <<>>]
        ELSE IF models.kind = "raise"
            THEN [files |-> fs, outcome |-> models, http |-> <<request>>,
                  cache_ops |-> IF use_cache THEN <<"get">> ELSE <<>>]
        ELSE [files |-> stored.files,
              outcome |-> IF stored.outcome.kind = "raise" THEN stored.outcome ELSE models,
              http |-> <<request>>,
              cache_ops |-> IF use_cache THEN <<"get", "set">> ELSE <<"set">>]

\* GenericProvider.get_models: the files after the call, its outcome, the HTTP
\* requests it issued and the cache manager methods it called
\* A variant of get_models that drops the provider's cache entry when the
\* request or the parse fails
GenericProvider_get_models_dropping(provider, fs, t, use_cache, response, io) ==
    LET name == provider.provider_name_value
        cached == CacheManager_get(provider.cache_manager, fs, t, name)
        request == client_get(provider, provider.models_endpoint)
        data == round_trip(provider, response)
        models == IF data.kind = "raise" THEN data
                  ELSE parse_models(provider.parser, data.value)
        stored == CacheManager_set(fs, t, name, models.value.items, io)
    IN  IF ~truthy(provider.api_key)
            THEN [files |-> fs, outcome |-> no_api_key(provider),
                  http |-> <<>>, cache_ops |-> <<>>]
        ELSE IF use_cache /\ cached.kind = "raise"
            THEN [files |-> fs, outcome |-> cached,
                  http |-> <<>>, cache_ops |-> <<"get">>]
        ELSE IF use_cache /\ cached.value # None
            THEN [files |-> fs, outcome |-> cached,
                  http |-> <<>>, cache_ops |-> <<"get">>]
        ELSE IF models.kind = "raise"
            THEN [files |-> CacheManager_invalidate(fs, name, "ok").files,
                  outcome |-> models, http |-> <<request>>,
                  cache_ops |-> IF use_cache THEN <<"get">> ELSE <<>>]
        ELSE [files |-> stored.files,
              outcome |-> IF stored.outcome.kind = "raise" THEN stored.outcome ELSE models,
              http |-> <<request>>,
              cache_ops |-> IF use_cache THEN <<"get", "set">> ELSE <<"set">>]

GenericProvider_get_models(provider, fs, t, use_cache, response, io) ==
    LET name == provider.provider_name_value
        cached == CacheManager_get(provider.cache_manager, fs, t, name)
        request == client_get(provider, provider.models_endpoint)
        data == round_trip(provider, response)
        models == IF data.kind = "raise" THEN data
                  ELSE parse_models(provider.parser, data.value)
        stored == CacheManager_set(fs, t, name, models.value.items, io)
    IN  IF ~truthy(provider.api_key)
            THEN [files |-> fs, outcome |-> no_api_key(provider),
                  http |-> <<>>, cache_ops |-> <<>>]
        ELSE IF use_cache /\ cached.kind = "raise"
            THEN [files |-> fs, outcome |-> cached,
                  http |-> <<>>, cache_ops |-> <<"get">>]
        ELSE IF use_cache /\ cached.value # None
            THEN [files |-> fs, outcome |-> cached,
                  http |-> <<>>, cache_ops |-> <<"get">>]
        ELSE IF models.kind = "raise"
            THEN [files |-> fs, outcome |-> models, http |-> <<request>>,
                  cache_ops |-> IF use_cache THEN <<"get">> ELSE <<>>]
        ELSE [files |-> stored.files,
              outcome |-> IF stored.outcome.kind = "raise" THEN stored.outcome ELSE models,
              http |-> <<request>>,
              cache_ops |-> IF use_cache THEN <<"get", "set">> ELSE <<"set">>]

\* A variant of get_credits that tests the credits endpoint before the key
GenericProvider_get_credits_endpoint_first(provider, response) ==
    LET request == client_get(provider, provider.credits_endpoint.s)
        data == round_trip(provider, response)
        credits_info == IF data.kind = "raise" THEN data
                        ELSE parse_credits(provider.parser, data.value)
    IN  IF ~truthy(provider.credits_endpoint)
            THEN [outcome |-> Return(None), http |-> <<>>]
        ELSE IF ~truthy(provider.api_key)
            THEN [outcome |-> no_api_key(provider), http |-> <<>>]
        ELSE [outcome |-> credits_info, http |-> <<request>>]

\* GenericProvider.get_credits: its outcome and the HTTP requests it issued
GenericProvider_get_credits(provider, response) ==
    LET request == client_get(provider, provider.credits_endpoint.s)
        data == round_trip(provider, response)
        credits_info == IF data.kind = "raise" THEN data
                        ELSE parse_credits(provider.parser, data.value)
    IN  IF ~truthy(provider.api_key)
            THEN [outcome |-> no_api_key(provider), http |-> <<>>]
        ELSE IF ~truthy(provider.credits_endpoint)
            THEN [outcome |-> Return(None), http |-> <<>>]
        ELSE [outcome |-> credits_info, http |-> <<request>>]

(***************************************************************************)
(* providers/__init__.py                                                   *)
(***************************************************************************)
_create_provider_from_config(config, api_key, env) ==
    LET parser_type == dict_get(config, "parser", PyStr("openai_compatible")).s IN
    IF parser_type \notin {"openai_compatible", "openrouter"}
        THEN Raise(ValueError("Unknown parser type: " \o parser_type))
        ELSE Return(GenericProvider(
                 config.d["name"].s,
                 config.d["base_url"].s,
                 config.d["api_key_env"].s,
                 config.d["models_endpoint"].s,
                 IF parser_type = "openai_compatible"
                     THEN OpenAICompatibleParser("data") ELSE OpenRouterParser,
                 api_key,
                 dict_get(config, "credits_endpoint", None),
                 cache_ttl_hours_default,
                 env))

(***************************************************************************)
(* Inputs: provider configurations, API keys, the environment, responses.  *)
(***************************************************************************)
ProviderConfig(name, base_url, api_key_env, parser, credits_endpoint) ==
    PyDict([name |-> PyStr(name), base_url |-> PyStr(base_url),
            api_key_env |-> PyStr(api_key_env), models_endpoint |-> PyStr("/models"),
            parser |-> PyStr(parser), credits_endpoint |-> credits_endpoint])

ProviderConfigs ==
    {ProviderConfig("groq", "https://api.groq.com/openai/v1", "GROQ_API_KEY",
                    "openai_compatible", None),
     ProviderConfig("openrouter", "https://openrouter.ai/api/v1", "OPENROUTER_API_KEY",
                    "openrouter", PyStr("/credits"))}

EnvNames == {"GROQ_API_KEY", "OPENROUTER_API_KEY"}

\* the --api-key argument: absent, empty, or a key
GivenKeys == {None, PyStr(""), PyStr("sk-given")}

\* os.environ: a variable is unset, empty, or holds a key of its own
Environments ==
    {<<>>,
     [GROQ_API_KEY |-> PyStr("sk-env-groq"), OPENROUTER_API_KEY |-> PyStr("")],
     [GROQ_API_KEY |-> PyStr(""), OPENROUTER_API_KEY |-> PyStr("sk-env-openrouter")]}

EntryFull1 == JObject([id |-> JString("model1"), name |-> JString("Model 1"),
                       context_length |-> JNumber(1000)])
EntryFull2 == JObject([id |-> JString("model2"), name |-> JString("Model 2"),
                       pricing |-> JObject([prompt |-> JString("0.0")])])
EntryNoName == JObject([id |-> JString("model1")])

ModelsBodies ==
    {JObject([data |-> JArray(<<EntryFull1, EntryFull2>>)]),
     JObject([data |-> JArray(<<EntryNoName>>)]),
     JObject([data |-> JString("not_a_list")]),
     NotJson}

CreditsBodies ==
    {JObject([data |-> JObject([total_credits |-> JNumber(10), total_usage |-> JNumber(3)])]),
     JObject([object |-> JString("credits")]),
     NotJson}

StatusCodes == {200, 401, 404, 429, 500}

RequestErrors == {[type |-> "ConnectError", base |-> "RequestError"],
                  [type |-> "ReadTimeout", base |-> "RequestError"]}

\* a transport failure, a status other than 200 (whose body is never read), or
\* status 200 with one of the bodies
Responses(bodies) ==
    {[kind |-> "error", error |-> e] : e \in RequestErrors}
    \cup
    {[kind |-> "response", status_code |-> s, body |-> NotJson] : s \in StatusCodes \ {200}}
    \cup
    {[kind |-> "response", status_code |-> 200, body |-> b] : b \in bodies}

\* what the network did with a request, without the body
round_trip_result(response) ==
    IF response.kind = "error"
        THEN [kind |-> "error", error |-> response.error]
        ELSE [kind |-> "response", status_code |-> response.status_code]

(***************************************************************************)
(* The record of the last completed call.                                  *)
(***************************************************************************)
NoDisk == <<>>
NoWriters == <<>>
NoCatalogs == [builtin |-> <<>>, user |-> <<>>]
NoListing == [pc |-> "idle"]
NoProvider == [cls |-> "none"]
NoneBefore == [op |-> "none", provider |-> "", kind |-> "return", io |-> "none"]
NoCall == [op |-> "none", provider |-> "", args |-> [none |-> TRUE],
           outcome |-> Return(None), after |-> NoneBefore]

\* a call of the provider
Call(op, provider_name, args, outcome) ==
    [op |-> op, provider |-> provider_name, args |-> args, outcome |-> outcome,
     after |-> NoneBefore]

\* a call of the cache manager, with the call it comes directly after
CacheCall(op, provider_name, args, outcome) ==
    [op |-> op, provider |-> provider_name, args |-> args, outcome |-> outcome,
     after |-> [op |-> last.op, provider |-> last.provider, kind |-> last.outcome.kind,
                io |-> IF "io" \in DOMAIN last.args THEN last.args.io ELSE "none"]]

(***************************************************************************)
(* The cache manager's operations, called directly.                        *)
(***************************************************************************)
CacheSet ==
    \E p \in ProviderNames, models \in ModelLists, io \in SetIO :
        LET r == CacheManager_set(files, now, p, models, io) IN
        /\ files' = r.files
        /\ last' = CacheCall("set", p, [models |-> PyList(models), io |-> io], r.outcome)
        /\ entry' = [entry EXCEPT ![p] = entry_after_set(@, now, models, io)]
        /\ UNCHANGED <<now, environ, disk, writers, catalogs, self, http, cache_ops, listing>>

CacheGet ==
    \E p \in ProviderNames :
        /\ last' = CacheCall("get", p, [none |-> TRUE],
                        CacheManager_get(CacheManager(ttl_hours_default), files, now, p))
        /\ UNCHANGED <<now, environ, disk, writers, catalogs, files, self, http, cache_ops, entry, listing>>

CacheInvalidate ==
    \E p \in ProviderNames, io \in UnlinkIO :
        LET r == CacheManager_invalidate(files, p, io) IN
        /\ files' = r.files
        /\ last' = CacheCall("invalidate", p, [io |-> io], r.outcome)
        /\ entry' = [entry EXCEPT ![p] = entry_after_invalidate(@, io)]
        /\ UNCHANGED <<now, environ, disk, writers, catalogs, self, http, cache_ops, listing>>

\* the wall clock advances
Tick ==
    /\ now < MaxTime
    /\ now' = now + 1
    /\ UNCHANGED <<environ, disk, writers, catalogs, files, self, last, http, cache_ops, entry,
                       listing>>

(***************************************************************************)
(* The provider's operations.                                              *)
(***************************************************************************)
\* A provider is built from a configuration, as get_provider and the commands do.
\* A behaviour follows the providers built for one name and that name's cache
\* file; the files of different names are independent of each other (SpecCache).
Construct ==
    \E config \in ProviderConfigs, api_key \in GivenKeys :
        LET r == _create_provider_from_config(config, api_key, environ) IN
        /\ r.kind = "return"
        /\ self # NoProvider => r.value.provider_name_value = self.provider_name_value
        /\ self' = r.value
        /\ last' = Call("__init__", r.value.provider_name_value,
                        [api_key |-> api_key], Return(None))
        /\ http' = <<>>
        /\ cache_ops' = <<>>
        /\ UNCHANGED <<now, environ, disk, writers, catalogs, files, entry, listing>>

\* the inputs a call consumes: a response when it issues a request, a file
\* system outcome when it reaches CacheManager.set
NoResponse == [kind |-> "error", error |-> [type |-> "ConnectError", base |-> "RequestError"]]

ResponsesConsumed(sends, bodies) == IF sends THEN Responses(bodies) ELSE {NoResponse}

SetIOConsumed(writes) == IF writes THEN SetIO ELSE {"ok"}

\* the list the provider's parser makes of a response
parsed_of(provider, response) == parse_models(provider.parser, response_json(response).value)

calls_set(r) == \E i \in DOMAIN r.cache_ops : r.cache_ops[i] = "set"

GetModels ==
    /\ self # NoProvider
    /\ \E use_cache \in BOOLEAN :
       \E response \in ResponsesConsumed(
              GenericProvider_get_models(self, files, now, use_cache, NoResponse, "ok").http
                  # <<>>, ModelsBodies) :
       \E io \in SetIOConsumed(
              calls_set(GenericProvider_get_models(self, files, now, use_cache, response, "ok"))) :
        LET r == GenericProvider_get_models(self, files, now, use_cache, response, io)
            name == self.provider_name_value
        IN
        /\ files' = r.files
        /\ http' = r.http
        /\ cache_ops' = r.cache_ops
        /\ last' = Call("get_models", name,
                        [use_cache |-> use_cache,
                         round_trip |-> IF r.http # <<>> THEN round_trip_result(response)
                                        ELSE [kind |-> "none"]],
                        r.outcome)
        /\ entry' = IF calls_set(r)
                        THEN [entry EXCEPT ![name] =
                                 entry_after_set(@, now, parsed_of(self, response).value.items, io)]
                        ELSE entry
        /\ UNCHANGED <<now, environ, disk, writers, catalogs, self, listing>>

GetCredits ==
    /\ self # NoProvider
    /\ \E response \in ResponsesConsumed(
              GenericProvider_get_credits(self, NoResponse).http # <<>>, CreditsBodies) :
        LET r == GenericProvider_get_credits(self, response) IN
        /\ http' = r.http
        /\ cache_ops' = <<>>
        /\ last' = Call("get_credits", self.provider_name_value,
                        [round_trip |-> IF r.http # <<>> THEN round_trip_result(response)
                                        ELSE [kind |-> "none"]],
                        r.outcome)
        /\ UNCHANGED <<now, environ, disk, writers, catalogs, files, self, entry, listing>>

\* CacheManager.invalidate called on the name of the provider, whose cache file it
\* shares with the provider's own cache manager
Invalidate ==
    /\ self # NoProvider
    /\ \E io \in UnlinkIO :
        LET name == self.provider_name_value
            r == CacheManager_invalidate(files, name, io)
        IN
        /\ files' = r.files
        /\ last' = Call("invalidate", name, [io |-> io], r.outcome)
        /\ http' = <<>>
        /\ cache_ops' = <<"invalidate">>
        /\ entry' = [entry EXCEPT ![name] = entry_after_invalidate(@, io)]
        /\ UNCHANGED <<now, environ, disk, writers, catalogs, self, listing>>

InitCache ==
    /\ now = 0
    /\ environ = <<>>
    /\ files = [f \in CacheFiles |-> NoFile]
    /\ self = NoProvider
    /\ last = NoCall
    /\ http = <<>>
    /\ cache_ops = <<>>
    /\ entry = [p \in ProviderNames |-> NoEntry]
    /\ disk = NoDisk
    /\ writers = NoWriters
    /\ catalogs = NoCatalogs
    /\ listing = NoListing

NextCache == CacheSet \/ CacheGet \/ CacheInvalidate \/ Tick

SpecCache == InitCache /\ [][NextCache]_vars

Init ==
    /\ now = 0
    /\ environ \in Environments
    /\ files = [f \in CacheFiles |-> NoFile]
    /\ self = NoProvider
    /\ last = NoCall
    /\ http = <<>>
    /\ cache_ops = <<>>
    /\ entry = [p \in ProviderNames |-> NoEntry]
    /\ disk = NoDisk
    /\ writers = NoWriters
    /\ catalogs = NoCatalogs
    /\ listing = NoListing

Next == Construct \/ GetModels \/ GetCredits \/ Invalidate \/ Tick

Spec == Init /\ [][Next]_vars

(***************************************************************************)
(* Properties of the cache manager (SpecCache) and of the provider (Spec). *)
(***************************************************************************)
\* the provider holds a key: neither None nor the empty string
KeyResolved(provider) == provider.api_key # None /\ provider.api_key # PyStr("")

\* the entry left for a provider name is a completed set not older than the TTL
Unexpired(e, ttl) == e.kind = "entry" /\ now - e.at <= ttl

\* C1: get_models(use_cache=True) on a provider that holds a key, while the cache
\* holds an entry for its name that is not older than the TTL, returns exactly the
\* cached list and issues no HTTP request.
C1_CacheHit ==
    [][(GetModels /\ last'.args.use_cache /\ KeyResolved(self)
            /\ Unexpired(entry[self.provider_name_value], self.cache_manager.CACHE_TTL))
        => /\ last'.outcome = Return(entry[self.provider_name_value].models)
           /\ http' = <<>>]_vars

\* a non-empty list served from an entry whose age equals the TTL
C1_Witness ==
    /\ last.op = "get_models"
    /\ last.args.use_cache
    /\ http = <<>>
    /\ entry[last.provider].kind = "entry"
    /\ now - entry[last.provider].at = cache_ttl_hours_default
    /\ last.outcome = Return(entry[last.provider].models)
    /\ Len(last.outcome.value.items) = 2

\* C2: a get_models that fetches and returns has, for either value of use_cache,
\* left the parsed list in the cache under the provider's name; and as long as the
\* entry a fetch stored is not older than the TTL and was not replaced or removed,
\* get_models(use_cache=True) returns that list without an HTTP request.
C2_FetchStores ==
    [][/\ (GetModels /\ http' # <<>> /\ last'.outcome.kind = "return")
            => /\ exists(files', _get_cache_file(self.provider_name_value))
               /\ CacheManager_get(self.cache_manager, files', now,
                                   self.provider_name_value) = last'.outcome
               /\ entry'[self.provider_name_value].models = last'.outcome.value
       /\ (GetModels /\ last'.args.use_cache /\ KeyResolved(self)
               /\ Unexpired(entry[self.provider_name_value], self.cache_manager.CACHE_TTL))
            => /\ last'.outcome = Return(entry[self.provider_name_value].models)
               /\ cache_ops' = <<"get">>
               /\ http' = <<>>
               /\ files' = files]_vars

\* a fetch with use_cache=False that has just stored the two models it parsed
C2_Witness ==
    /\ last.op = "get_models"
    /\ ~last.args.use_cache
    /\ Len(http) = 1
    /\ cache_ops = <<"set">>
    /\ last.outcome.kind = "return"
    /\ Len(last.outcome.value.items) = 2
    /\ entry[last.provider] = [kind |-> "entry", models |-> last.outcome.value, at |-> now]
    /\ exists(files, _get_cache_file(last.provider))

\* C3: a get(p) that directly follows a completed set(p, models), before the TTL
\* has elapsed, returns a list equal to models field by field and in order,
\* whatever the file held before that set.
C3_SetGetRoundTrip ==
    [][(CacheGet /\ last.op = "set" /\ last.outcome.kind = "return"
            /\ last'.provider = last.provider
            /\ now - entry[last.provider].at <= ttl_hours_default)
        => last'.outcome = Return(last.args.models)]_vars

\* a get directly after a set that returned the two models in the order stored
C3_Witness ==
    /\ last.op = "get"
    /\ last.after = [op |-> "set", provider |-> last.provider, kind |-> "return", io |-> "ok"]
    /\ last.outcome = Return(PyList(<<Model2, Model1>>))

\* C4: get(p) on an entry whose cached_at is older than the TTL returns None and
\* leaves every file as it is; a cache file changes only in a set or an invalidate
\* on its provider name.
C4_ExpiredKept ==
    [][/\ (CacheGet /\ entry[last'.provider].kind = "entry"
               /\ now - entry[last'.provider].at > ttl_hours_default)
            => /\ last'.outcome = Return(None)
               /\ files' = files
       /\ \A p \in ProviderNames :
            files'[_get_cache_file(p)] # files[_get_cache_file(p)]
                => /\ last'.op \in {"set", "invalidate"}
                   /\ last'.provider = p]_vars

\* a get that returned None on a stored entry two hours old, the file still there
C4_Witness ==
    /\ last.op = "get"
    /\ last.outcome = Return(None)
    /\ entry[last.provider].kind = "entry"
    /\ now - entry[last.provider].at > ttl_hours_default
    /\ files[_get_cache_file(last.provider)] =
           File(json_dumps(cache_data_of(entry[last.provider].at, last.provider,
                                         entry[last.provider].models.items)))

\* C5 as stated: a get(p) directly after invalidate(p) returns None, and a second
\* invalidate(p) in a row raises nothing and leaves the cache as the first left it.
C5_AsStated ==
    [][/\ (CacheGet /\ last.op = "invalidate" /\ last'.provider = last.provider)
            => last'.outcome = Return(None)
       /\ (CacheInvalidate /\ last.op = "invalidate" /\ last'.provider = last.provider)
            => /\ last'.outcome.kind = "return"
               /\ files' = files]_vars

\* C5: invalidate(p) never raises; when its deletion fails the file stays as it
\* was; when its deletion does not fail (the file is removed, or there was none),
\* a get(p) directly after it returns None and a second invalidate(p) in a row
\* raises nothing and leaves the cache unchanged.
C5_Invalidate ==
    [][/\ CacheInvalidate
            => /\ last'.outcome = Return(None)
               /\ last'.args.io = "fails" => files' = files
               /\ last'.args.io = "ok" => ~exists(files', _get_cache_file(last'.provider))
       /\ (CacheGet /\ last.op = "invalidate" /\ last.args.io = "ok"
               /\ last'.provider = last.provider)
            => last'.outcome = Return(None)
       /\ (CacheInvalidate /\ last.op = "invalidate" /\ last.args.io = "ok"
               /\ last'.provider = last.provider)
            => /\ last'.outcome = Return(None)
               /\ files' = files]_vars

\* a second invalidate in a row, on a name whose file the first one removed or
\* found missing
C5_Witness ==
    /\ last.op = "invalidate"
    /\ last.after = [op |-> "invalidate", provider |-> last.provider, kind |-> "return",
                     io |-> "ok"]
    /\ last.outcome = Return(None)
    /\ ~exists(files, _get_cache_file(last.provider))
    /\ entry[last.provider] = NoEntry

\* C6: a provider built without an explicit key while its environment variable is
\* unset holds no key, and get_models on a provider without a key raises the
\* configuration fault for either value of use_cache, without calling the cache
\* manager, without an HTTP request and without touching the files.
C6_KeyFirst ==
    [][/\ (last.op = "__init__" /\ last.args.api_key = None
               /\ self.api_key_env \notin DOMAIN environ)
            => self.api_key = None
       /\ (GetModels /\ ~KeyResolved(self))
            => /\ last'.outcome =
                      Raise(ValueError(self.api_key_env \o " environment variable not set"))
               /\ cache_ops' = <<>>
               /\ http' = <<>>
               /\ files' = files]_vars

\* the fault raised by get_models(use_cache=True) while the cache holds an
\* unexpired entry for the provider's name
C6_Witness ==
    /\ last.op = "get_models"
    /\ last.args.use_cache
    /\ self.api_key = None
    /\ last.outcome.kind = "raise"
    /\ last.outcome.error.type = "ValueError"
    /\ Unexpired(entry[last.provider], cache_ttl_hours_default)
    /\ Len(entry[last.provider].models.items) > 0

\* C7: get_credits on a provider without a key raises the configuration fault
\* whether or not a credits endpoint is configured; with a key and no credits
\* endpoint it returns None; in both cases no HTTP request is issued.
C7_CreditsOrder ==
    [][GetCredits
        => /\ ~KeyResolved(self)
                => /\ last'.outcome =
                          Raise(ValueError(self.api_key_env \o " environment variable not set"))
                   /\ http' = <<>>
           /\ (KeyResolved(self) /\ self.credits_endpoint = None)
                => /\ last'.outcome = Return(None)
                   /\ http' = <<>>]_vars

\* get_credits raised on a provider that has neither a key nor a credits endpoint
C7_Witness ==
    /\ last.op = "get_credits"
    /\ ~KeyResolved(self)
    /\ self.credits_endpoint = None
    /\ last.outcome.kind = "raise"
    /\ last.outcome.error.type = "ValueError"
    /\ http = <<>>

\* C8: in get_models and in get_credits, a response with status 401 raises
\* AuthenticationError with status code 401, one with 429 raises RateLimitError
\* with status code 429, one with any other status outside 200..299 raises
\* APIError carrying that status, each with the provider's name; a transport
\* failure raises NetworkError holding the original error.
C8_FaultMapping ==
    (last.op \in {"get_models", "get_credits"} /\ http # <<>>) =>
        LET rt == last.args.round_trip
            raised == last.outcome.kind = "raise"
        IN  /\ rt.kind = "error"
                => /\ raised
                   /\ last.outcome.error.type = "NetworkError"
                   /\ last.outcome.error.original_error = rt.error
            /\ (rt.kind = "response" /\ rt.status_code = 401)
                => /\ raised
                   /\ last.outcome.error.type = "AuthenticationError"
                   /\ last.outcome.error.status_code = 401
                   /\ last.outcome.error.provider = last.provider
            /\ (rt.kind = "response" /\ rt.status_code = 429)
                => /\ raised
                   /\ last.outcome.error.type = "RateLimitError"
                   /\ last.outcome.error.status_code = 429
                   /\ last.outcome.error.provider = last.provider
            /\ (rt.kind = "response" /\ rt.status_code \notin {401, 429}
                    /\ (rt.status_code < 200 \/ rt.status_code > 299))
                => /\ raised
                   /\ last.outcome.error.type = "APIError"
                   /\ last.outcome.error.status_code = rt.status_code
                   /\ last.outcome.error.provider = last.provider

\* get_credits answered with 429
C8_Witness ==
    /\ last.op = "get_credits"
    /\ Len(http) = 1
    /\ last.args.round_trip.kind = "response"
    /\ last.args.round_trip.status_code = 429
    /\ last.outcome.kind = "raise"
    /\ last.outcome.error.type = "RateLimitError"

\* C9: a provider holds the explicit key when one was given and the value of its
\* environment variable otherwise; every request of get_models and get_credits
\* carries Authorization: Bearer <that key>, and none is issued without a key.
C9_Bearer ==
    /\ last.op = "__init__"
        => self.api_key =
              IF last.args.api_key # None /\ last.args.api_key # PyStr("")
                  THEN last.args.api_key
              ELSE IF self.api_key_env \in DOMAIN environ
                  THEN environ[self.api_key_env]
              ELSE None
    /\ \A i \in DOMAIN http :
          /\ KeyResolved(self)
          /\ http[i].headers = [Authorization |-> "Bearer " \o self.api_key.s]

\* a request that carries the key taken from the environment
C9_Witness ==
    /\ last.op = "get_models"
    /\ Len(http) = 1
    /\ self.api_key_env \in DOMAIN environ
    /\ self.api_key = environ[self.api_key_env]
    /\ http[1].headers.Authorization = "Bearer sk-env-openrouter"

\* the classes of errors.py
Taxonomy ==
    {"APIError", "RateLimitError", "AuthenticationError", "ConfigurationError", "NetworkError"}

\* C10: while the cache file of a provider's name holds text that is no JSON
\* document, get_models(use_cache=True) on a provider with a key raises an error
\* that is none of the classes of errors.py nor the configuration fault, issues no
\* HTTP request and leaves the file as it is; the file stops being undecodable
\* only by an invalidate or by a get_models(use_cache=False) that returns.
C10_CorruptCache ==
    [][/\ (GetModels /\ last'.args.use_cache /\ KeyResolved(self)
               /\ entry[self.provider_name_value] = Truncated)
            => /\ last'.outcome.kind = "raise"
               /\ last'.outcome.error.type \notin Taxonomy
               /\ last'.outcome #
                      Raise(ValueError(self.api_key_env \o " environment variable not set"))
               /\ cache_ops' = <<"get">>
               /\ http' = <<>>
               /\ files' = files
       /\ \A p \in ProviderNames :
            (entry[p] = Truncated /\ entry'[p] # Truncated)
                => \/ last'.op = "invalidate" /\ last'.provider = p
                   \/ /\ last'.op = "get_models"
                      /\ last'.provider = p
                      /\ ~last'.args.use_cache
                      /\ last'.outcome.kind = "return"
                      /\ CacheManager_get(self.cache_manager, files', now, p) = last'.outcome]_vars

\* get_models(use_cache=True) failed on the file a failed write left behind
C10_Witness ==
    /\ last.op = "get_models"
    /\ last.args.use_cache
    /\ entry[last.provider] = Truncated
    /\ files[_get_cache_file(last.provider)] = File(NotJson)
    /\ last.outcome = Raise(JSONDecodeError)
    /\ http = <<>>

\* C11 as stated: a get_models that fetched and parsed, and so reached the cache
\* write, returns the parsed list whether or not CacheManager.set failed.
C11_AsStated ==
    [][(GetModels /\ calls_set([cache_ops |-> cache_ops']))
        => /\ last'.outcome.kind = "return"
           /\ last'.outcome.value.py = "list"]_vars

\* get_models raised the OSError of the cache write after a fetch answered 200
\* with a body the parser accepted
C11_Witness ==
    /\ last.op = "get_models"
    /\ Len(http) = 1
    /\ last.args.round_trip.kind = "response"
    /\ last.args.round_trip.status_code = 200
    /\ calls_set([cache_ops |-> cache_ops])
    /\ last.outcome = Raise(OSError)

(***************************************************************************)
(* Overlapping CacheManager.set calls on one provider name (cache.py       *)
(* 44-55).  Each call opens the file with mode 'w', which truncates it and *)
(* gives the call a file position of its own at 0, writes its text from    *)
(* that position, and closes.  Nothing orders the steps of different calls.*)
(***************************************************************************)
Writers == {"A", "B"}

\* the provider name the overlapping calls write
RaceProvider == "groq"

\* the text of a cache document as it lies in the file: the opening with
\* cached_at and provider, one chunk per model record, the closing
text_of(doc) ==
    <<[chunk |-> "open", cached_at |-> doc.d.cached_at, provider |-> doc.d.provider]>>
    \o [i \in DOMAIN doc.d.models.items |-> [chunk |-> "model", model |-> doc.d.models.items[i]]]
    \o <<[chunk |-> "close"]>>

\* json.loads of the text of a file: the document, if the text is one document
text_parse(text) ==
    IF /\ Len(text) >= 2
       /\ text[1].chunk = "open"
       /\ text[Len(text)].chunk = "close"
       /\ \A i \in 2..(Len(text) - 1) : text[i].chunk = "model"
    THEN JObject([cached_at |-> text[1].cached_at, provider |-> text[1].provider,
                  models |-> JArray([i \in 1..(Len(text) - 2) |-> text[i + 1].model])])
    ELSE NotJson

\* f.write(text) at position 0 of a file that holds `old`: what lies beyond the
\* end of text stays
write_at_start(old, text) ==
    IF Len(old) > Len(text) THEN text \o SubSeq(old, Len(text) + 1, Len(old)) ELSE text

\* the cache directory as CacheManager.get sees it once the file holds `text`
files_of(text) ==
    [f \in CacheFiles |->
        IF f = _get_cache_file(RaceProvider) THEN File(text_parse(text)) ELSE NoFile]

IdleWriter == [pc |-> "idle", models |-> <<>>, text |-> <<>>, finished |-> 0]

\* how many of the calls have returned
finished_count == Cardinality({w \in Writers : writers[w].pc = "closed"})

\* lines 46-54: cache_data is built and aiofiles.open(cache_file, 'w') truncates
SetOpen ==
    \E w \in Writers, models \in ModelLists :
        /\ writers[w].pc = "idle"
        /\ writers' = [writers EXCEPT ![w] =
               [pc |-> "opened", models |-> models, finished |-> 0,
                text |-> text_of(json_dumps(cache_data_of(now, RaceProvider, models)))]]
        /\ disk' = <<>>
        /\ UNCHANGED <<now, environ, files, self, last, http, cache_ops, entry, catalogs, listing>>

\* line 55: f.write(json.dumps(cache_data, indent=2))
SetWrite ==
    \E w \in Writers :
        /\ writers[w].pc = "opened"
        /\ writers' = [writers EXCEPT ![w].pc = "written"]
        /\ disk' = write_at_start(disk, writers[w].text)
        /\ UNCHANGED <<now, environ, files, self, last, http, cache_ops, entry, catalogs, listing>>

\* the end of the `async with` block: the file is closed and set returns
SetClose ==
    \E w \in Writers :
        /\ writers[w].pc = "written"
        /\ writers' = [writers EXCEPT ![w].pc = "closed",
                                      ![w].finished = finished_count + 1]
        /\ UNCHANGED <<now, environ, files, self, last, http, cache_ops, entry, disk, catalogs, listing>>

\* a CacheManager.get after every set has returned
RaceGet ==
    /\ \A w \in Writers : writers[w].pc = "closed"
    /\ last' = CacheCall("get", RaceProvider, [none |-> TRUE],
                   CacheManager_get(CacheManager(ttl_hours_default), files_of(disk), now,
                                    RaceProvider))
    /\ UNCHANGED <<now, environ, files, self, http, cache_ops, entry, disk, writers, catalogs, listing>>

InitRace ==
    /\ now = 0
    /\ environ = <<>>
    /\ files = [f \in CacheFiles |-> NoFile]
    /\ self = NoProvider
    /\ last = NoCall
    /\ http = <<>>
    /\ cache_ops = <<>>
    /\ entry = [p \in ProviderNames |-> NoEntry]
    /\ disk = NoDisk
    /\ writers = [w \in Writers |-> IdleWriter]
    /\ catalogs = NoCatalogs
    /\ listing = NoListing

NextRace == SetOpen \/ SetWrite \/ SetClose \/ RaceGet

SpecRace == InitRace /\ [][NextRace]_vars

\* the set call that returned last
LastWriter == CHOOSE w \in Writers : writers[w].finished = Cardinality(Writers)

\* C12 as stated: once the overlapping set calls on a provider name have all
\* returned, the file holds exactly the text of the call that returned last, and
\* a get after that returns the list of that call.
C12_AsStated ==
    (\A w \in Writers : writers[w].pc = "closed")
        => /\ disk = writers[LastWriter].text
           /\ last.op = "get" => last.outcome = Return(PyList(writers[LastWriter].models))

\* both calls have returned, the one with the shorter text last, and the file
\* holds its text followed by the rest of the other's: get raises on it
C12_Witness ==
    /\ \A w \in Writers : writers[w].pc = "closed"
    /\ Len(writers[LastWriter].text) < Len(disk)
    /\ SubSeq(disk, 1, Len(writers[LastWriter].text)) = writers[LastWriter].text
    /\ last.op = "get"
    /\ last.outcome = Raise(JSONDecodeError)

(***************************************************************************)
(* providers/__init__.py: the provider catalogs and the registry.          *)
(* A catalog is the mapping under the "providers" key of a providers.yml,  *)
(* from provider name to configuration; a missing file is the empty one.   *)
(***************************************************************************)
\* A variant of dict.update in which the entries of `other` only extend `d`
dict_update_keep(d, other) ==
    [n \in DOMAIN d \cup DOMAIN other |-> IF n \in DOMAIN d THEN d[n] ELSE other[n]]

\* dict.update: the entries of `other` replace and extend those of `d`
dict_update(d, other) ==
    [n \in DOMAIN d \cup DOMAIN other |-> IF n \in DOMAIN other THEN other[n] ELSE d[n]]

\* providers = builtin_config.get("providers", {}).copy(); providers.update(user ...)
_load_provider_config(cats) == [providers |-> dict_update(cats.builtin, cats.user)]

\* A variant of the registry's _create_provider_from_config that falls back to
\* the OpenAI-compatible parser for a parser type it does not know
registry_create_provider_lenient(name, config, api_key, env) ==
    LET parser_type == dict_get(config, "parser", PyStr("openai_compatible")).s IN
    Return(GenericProvider(
        config.d["name"].s,
        config.d["base_url"].s,
        config.d["api_key_env"].s,
        config.d["models_endpoint"].s,
        IF parser_type = "openrouter" THEN OpenRouterParser ELSE OpenAICompatibleParser("data"),
        api_key,
        dict_get(config, "credits_endpoint", None),
        cache_ttl_hours_default,
        env))

\* _create_provider_from_config(name, config, api_key) of providers/__init__.py:
\* the name it is given is not used, the provider is named by config["name"]
registry_create_provider_from_config(name, config, api_key, env) ==
    LET parser_type == dict_get(config, "parser", PyStr("openai_compatible")).s IN
    IF parser_type \notin {"openai_compatible", "openrouter"}
        THEN Raise(ValueError("Unknown parser type: " \o parser_type))
        ELSE Return(GenericProvider(
                 config.d["name"].s,
                 config.d["base_url"].s,
                 config.d["api_key_env"].s,
                 config.d["models_endpoint"].s,
                 IF parser_type = "openai_compatible"
                     THEN OpenAICompatibleParser("data") ELSE OpenRouterParser,
                 api_key,
                 dict_get(config, "credits_endpoint", None),
                 cache_ttl_hours_default,
                 env))

\* A variant of get_provider without the membership test: providers_config[name]
\* raises KeyError for a name the merged catalog does not have
get_provider_unchecked(cats, name, api_key, env) ==
    LET providers_config == _load_provider_config(cats).providers IN
    IF name \notin DOMAIN providers_config
        THEN Raise(KeyError(name))
        ELSE registry_create_provider_from_config(name, providers_config[name], api_key, env)

get_provider(cats, name, api_key, env) ==
    LET providers_config == _load_provider_config(cats).providers IN
    IF name \notin DOMAIN providers_config
        THEN Raise(ValueError("Unknown provider: " \o name))
        ELSE registry_create_provider_from_config(name, providers_config[name], api_key, env)

\* get_providers: the mapping from name to provider, or the exception of the
\* first entry that cannot be built (the catalogs of the model hold at most one
\* kind of such entry)
get_providers(cats, env) ==
    LET providers_config == _load_provider_config(cats).providers
        built == [n \in DOMAIN providers_config |->
                     registry_create_provider_from_config(n, providers_config[n], None, env)]
    IN  IF \E n \in DOMAIN built : built[n].kind = "raise"
            THEN built[CHOOSE n \in DOMAIN built : built[n].kind = "raise"]
            ELSE Return([n \in DOMAIN built |-> built[n].value])

\* The built-in catalog (llminfo_cli/data/providers.yml) and the entries a user
\* catalog may hold under each of its keys: an override of a built-in name, an
\* entry of its own (with a known or an unknown parser), and an entry stored
\* under a key that differs from its "name" field.
GroqBuiltin ==
    ProviderConfig("groq", "https://api.groq.com/openai/v1", "GROQ_API_KEY",
                   "openai_compatible", None)
OpenRouterBuiltin ==
    ProviderConfig("openrouter", "https://openrouter.ai/api/v1", "OPENROUTER_API_KEY",
                   "openrouter", PyStr("/credits"))
GroqUser ==
    ProviderConfig("groq", "https://proxy.example/v1", "GROQ_PROXY_KEY", "openrouter", None)
CustomUser ==
    ProviderConfig("custom", "https://custom.example/v1", "CUSTOM_API_KEY",
                   "openai_compatible", None)
CustomUnknownParser ==
    ProviderConfig("custom", "https://custom.example/v1", "CUSTOM_API_KEY",
                   "unknown_parser", None)
AliasUser ==
    ProviderConfig("groq", "https://alias.example/v1", "GROQ_API_KEY",
                   "openai_compatible", None)

BuiltinCatalog == [groq |-> GroqBuiltin, openrouter |-> OpenRouterBuiltin]

UserEntries ==
    [groq |-> {GroqUser}, custom |-> {CustomUser, CustomUnknownParser}, alias |-> {AliasUser}]

UserCatalogs ==
    UNION {{u \in [S -> UNION {UserEntries[k] : k \in S}] : \A k \in S : u[k] \in UserEntries[k]}
               : S \in SUBSET DOMAIN UserEntries}

\* the names asked of the registry
RegistryNames == {"groq", "openrouter", "custom", "alias", "nonexistent"}

RegistryEnviron == [GROQ_API_KEY |-> PyStr("sk-env-groq")]

GetProvider ==
    \E name \in RegistryNames, api_key \in {None, PyStr("sk-given")} :
        /\ last' = Call("get_provider", name, [api_key |-> api_key],
                        get_provider(catalogs, name, api_key, environ))
        /\ UNCHANGED <<now, environ, files, self, http, cache_ops, entry, disk, writers,
                       catalogs, listing>>

GetProviders ==
    /\ last' = Call("get_providers", "", [none |-> TRUE], get_providers(catalogs, environ))
    /\ UNCHANGED <<now, environ, files, self, http, cache_ops, entry, disk, writers, catalogs, listing>>

\* the cache files of the providers the registry can name
RegistryCacheFiles == {_get_cache_file(p) : p \in {"groq", "openrouter", "custom"}}

InitRegistry ==
    /\ now = 0
    /\ environ = RegistryEnviron
    /\ files = [f \in RegistryCacheFiles |-> NoFile]
    /\ self = NoProvider
    /\ last = NoCall
    /\ http = <<>>
    /\ cache_ops = <<>>
    /\ entry = [p \in ProviderNames |-> NoEntry]
    /\ disk = NoDisk
    /\ writers = NoWriters
    /\ catalogs \in {[builtin |-> BuiltinCatalog, user |-> u] : u \in UserCatalogs}
    /\ listing = NoListing


\* the merged catalog, entry by entry: the user's entry where the user catalog
\* has the name, the built-in entry otherwise
MergedNames == DOMAIN catalogs.builtin \cup DOMAIN catalogs.user

\* C13: get_provider of a name that is no key of the built-in catalog and no key
\* of the user catalog raises ValueError("Unknown provider: <name>") and returns
\* no provider.
C13_UnknownProvider ==
    (last.op = "get_provider" /\ last.provider \notin MergedNames)
        => last.outcome = Raise(ValueError("Unknown provider: " \o last.provider))

\* get_provider("custom") raised while only the built-in catalog exists
C13_Witness ==
    /\ last.op = "get_provider"
    /\ last.provider = "custom"
    /\ catalogs.user = <<>>
    /\ last.outcome.kind = "raise"
    /\ last.outcome.error.type = "ValueError"

\* the provider has the fields that the configuration gives it
BuiltFrom(provider, config) ==
    /\ provider.provider_name_value = config.d["name"].s
    /\ provider.base_url = config.d["base_url"].s
    /\ provider.api_key_env = config.d["api_key_env"].s
    /\ provider.models_endpoint = config.d["models_endpoint"].s
    /\ provider.credits_endpoint = config.d["credits_endpoint"]
    /\ provider.parser.cls = IF config.d["parser"].s = "openrouter"
                                 THEN "OpenRouterParser" ELSE "OpenAICompatibleParser"

\* the entry the merged catalog should hold for a name
MergedEntry(n) == IF n \in DOMAIN catalogs.user THEN catalogs.user[n] ELSE catalogs.builtin[n]

\* C14: a provider returned by get_provider(n), and every provider in the mapping
\* returned by get_providers, is built from the user catalog's entry when the user
\* catalog has the name and from the built-in entry otherwise; the mapping has
\* exactly the names of the two catalogs.
C14_UserPrecedence ==
    /\ (last.op = "get_provider" /\ last.outcome.kind = "return")
        => BuiltFrom(last.outcome.value, MergedEntry(last.provider))
    /\ (last.op = "get_providers" /\ last.outcome.kind = "return")
        => /\ DOMAIN last.outcome.value = MergedNames
           /\ \A n \in MergedNames : BuiltFrom(last.outcome.value[n], MergedEntry(n))

\* get_providers returned groq built from the user's entry, custom from the
\* user's and openrouter from the built-in one
C14_Witness ==
    /\ last.op = "get_providers"
    /\ last.outcome.kind = "return"
    /\ DOMAIN catalogs.user = {"groq", "custom"}
    /\ last.outcome.value["groq"].base_url = "https://proxy.example/v1"
    /\ last.outcome.value["groq"].parser.cls = "OpenRouterParser"
    /\ last.outcome.value["custom"].base_url = "https://custom.example/v1"
    /\ last.outcome.value["openrouter"].base_url = "https://openrouter.ai/api/v1"

\* C15: get_provider of a name whose entry in the merged catalog has a parser
\* other than openai_compatible and openrouter raises
\* ValueError("Unknown parser type: <parser>") and returns no provider.
C15_UnknownParser ==
    (/\ last.op = "get_provider"
     /\ last.provider \in MergedNames
     /\ MergedEntry(last.provider).d["parser"].s \notin {"openai_compatible", "openrouter"})
        => last.outcome =
               Raise(ValueError("Unknown parser type: "
                                    \o MergedEntry(last.provider).d["parser"].s))

\* get_provider("custom") raised on the user's entry with parser unknown_parser
C15_Witness ==
    /\ last.op = "get_provider"
    /\ last.provider = "custom"
    /\ "custom" \in DOMAIN catalogs.user
    /\ catalogs.user["custom"] = CustomUnknownParser
    /\ last.outcome = Raise(ValueError("Unknown parser type: unknown_parser"))

\* C16 as stated: the provider returned by get_provider(n) has provider_name n,
\* and every provider in the mapping returned by get_providers has the
\* provider_name of the key it is stored under.
C16_AsStated ==
    /\ (last.op = "get_provider" /\ last.outcome.kind = "return")
        => last.outcome.value.provider_name_value = last.provider
    /\ (last.op = "get_providers" /\ last.outcome.kind = "return")
        => \A n \in DOMAIN last.outcome.value :
               last.outcome.value[n].provider_name_value = n

\* get_provider("alias") returned a provider whose provider_name is the "name"
\* field of the entry, groq
C16_Witness ==
    /\ last.op = "get_provider"
    /\ last.provider = "alias"
    /\ last.outcome.kind = "return"
    /\ last.outcome.value.provider_name_value = "groq"

(***************************************************************************)
(* validators.py                                                           *)
(***************************************************************************)
required_fields == <<"name", "base_url", "api_key_env", "models_endpoint", "parser">>

valid_parsers == {"openai_compatible", "openrouter"}

\* The strings of the model's configurations for which base_url.startswith(
\* ("http://", "https://")) holds, and those for which str.isupper() holds (every
\* cased character is upper case and there is at least one)
HttpStrings ==
    {"https://custom.example/v1", "http://localhost:8000/v1", "https://imported.example/v1"}

UpperStrings == {"CUSTOM_API_KEY", "KEY_2", "GROQ_API_KEY"}

startswith_http(s) == s \in HttpStrings

isupper(s) == s \in UpperStrings

\* `not x or not isinstance(x, str)` is false
is_str_nonempty(x) == x.py = "str" /\ x.s # ""

\* the results (False, message) and (True, "")
Invalid(message) == Return([is_valid |-> FALSE, error |-> message])
Valid == Return([is_valid |-> TRUE, error |-> ""])

\* the first required field that `field not in config` finds missing
first_missing(config) ==
    required_fields[CHOOSE i \in DOMAIN required_fields :
                        /\ required_fields[i] \notin DOMAIN config.d
                        /\ \A j \in 1..(i - 1) : required_fields[j] \in DOMAIN config.d]

\* A variant of validate_provider_config that tests the four string fields first
\* and the form of base_url and api_key_env after them
validate_provider_config_strings_first(config) ==
    IF config.py # "dict" THEN Raise(TypeError)
    ELSE IF \E i \in DOMAIN required_fields : required_fields[i] \notin DOMAIN config.d
        THEN Invalid("Missing required field: " \o first_missing(config))
    ELSE IF ~is_str_nonempty(dict_get(config, "name", None))
        THEN Invalid("Invalid or missing 'name' field")
    ELSE IF ~is_str_nonempty(dict_get(config, "base_url", None))
        THEN Invalid("Invalid or missing 'base_url' field")
    ELSE IF ~is_str_nonempty(dict_get(config, "api_key_env", None))
        THEN Invalid("Invalid or missing 'api_key_env' field")
    ELSE IF ~is_str_nonempty(dict_get(config, "models_endpoint", None))
        THEN Invalid("Invalid or missing 'models_endpoint' field")
    ELSE IF ~startswith_http(dict_get(config, "base_url", None).s)
        THEN Invalid("Invalid base_url: must start with http:// or https://")
    ELSE IF ~isupper(dict_get(config, "api_key_env", None).s)
        THEN Invalid("api_key_env should be uppercase")
    ELSE IF dict_get(config, "parser", None) \notin {PyStr(p) : p \in valid_parsers}
        THEN Invalid("Invalid parser: must be one of ['openai_compatible', 'openrouter']")
    ELSE IF /\ "credits_endpoint" \in DOMAIN config.d
             /\ config.d["credits_endpoint"] # None
             /\ config.d["credits_endpoint"].py # "str"
        THEN Invalid("Invalid 'credits_endpoint': must be a string or null")
    ELSE Valid

\* validate_provider_config; `field not in config` raises TypeError when config is
\* None (an empty YAML document)
validate_provider_config(config) ==
    IF config.py # "dict" THEN Raise(TypeError)
    ELSE IF \E i \in DOMAIN required_fields : required_fields[i] \notin DOMAIN config.d
        THEN Invalid("Missing required field: " \o first_missing(config))
    ELSE IF ~is_str_nonempty(dict_get(config, "name", None))
        THEN Invalid("Invalid or missing 'name' field")
    ELSE IF ~is_str_nonempty(dict_get(config, "base_url", None))
        THEN Invalid("Invalid or missing 'base_url' field")
    ELSE IF ~startswith_http(dict_get(config, "base_url", None).s)
        THEN Invalid("Invalid base_url: must start with http:// or https://")
    ELSE IF ~is_str_nonempty(dict_get(config, "api_key_env", None))
        THEN Invalid("Invalid or missing 'api_key_env' field")
    ELSE IF ~isupper(dict_get(config, "api_key_env", None).s)
        THEN Invalid("api_key_env should be uppercase")
    ELSE IF ~is_str_nonempty(dict_get(config, "models_endpoint", None))
        THEN Invalid("Invalid or missing 'models_endpoint' field")
    ELSE IF dict_get(config, "parser", None) \notin {PyStr(p) : p \in valid_parsers}
        THEN Invalid("Invalid parser: must be one of ['openai_compatible', 'openrouter']")
    ELSE IF /\ "credits_endpoint" \in DOMAIN config.d
             /\ config.d["credits_endpoint"] # None
             /\ config.d["credits_endpoint"].py # "str"
        THEN Invalid("Invalid 'credits_endpoint': must be a string or null")
    ELSE Valid

\* The configurations given to the validator: every field is absent or takes one
\* of a few values, valid and invalid; and None, what yaml.safe_load gives for an
\* empty document.
Absent == [py |-> "absent"]

FieldValues ==
    [name |-> {Absent, PyStr("custom"), PyStr(""), PyInt(1)},
     base_url |-> {Absent, PyStr("https://custom.example/v1"), PyStr("ftp://custom.example"),
                   PyStr("")},
     api_key_env |-> {Absent, PyStr("CUSTOM_API_KEY"), PyStr("custom_api_key"), PyStr("")},
     models_endpoint |-> {Absent, PyStr("/models"), PyStr("")},
     parser |-> {Absent, PyStr("openai_compatible"), PyStr("openrouter"),
                 PyStr("unknown_parser")},
     credits_endpoint |-> {Absent, None, PyStr("/credits"), PyInt(1)}]

config_of(choice) ==
    PyDict([f \in {g \in DOMAIN choice : choice[g] # Absent} |-> choice[f]])

ValidatorConfigs ==
    {None} \cup
    {config_of([name |-> a, base_url |-> b, api_key_env |-> c, models_endpoint |-> d,
                parser |-> e, credits_endpoint |-> f]) :
        a \in FieldValues.name, b \in FieldValues.base_url, c \in FieldValues.api_key_env,
        d \in FieldValues.models_endpoint, e \in FieldValues.parser,
        f \in FieldValues.credits_endpoint}

Validate ==
    \E config \in ValidatorConfigs :
        /\ last' = Call("validate_provider_config", "", [config |-> config],
                        validate_provider_config(config))
        /\ UNCHANGED <<now, environ, files, self, http, cache_ops, entry, disk, writers,
                       catalogs, listing>>

InitValidate ==
    /\ now = 0
    /\ environ = RegistryEnviron
    /\ files = [f \in CacheFiles |-> NoFile]
    /\ self = NoProvider
    /\ last = NoCall
    /\ http = <<>>
    /\ cache_ops = <<>>
    /\ entry = [p \in ProviderNames |-> NoEntry]
    /\ disk = NoDisk
    /\ writers = NoWriters
    /\ catalogs = NoCatalogs
    /\ listing = NoListing

NextValidate == Validate

SpecValidate == InitValidate /\ [][NextValidate]_vars

(***************************************************************************)
(* C18: the rules of validate_provider_config and the order of its checks  *)
(***************************************************************************)
\* a rule of the validator is violated by a mapping (a rule about the form of a
\* field is violated only by a field that is a non-empty string)
Violates(config, rule) ==
    LET field(f) == dict_get(config, f, None) IN
    CASE rule \in {"has_name", "has_base_url", "has_api_key_env", "has_models_endpoint",
                   "has_parser"} ->
             LET f == CHOOSE g \in {"name", "base_url", "api_key_env", "models_endpoint",
                                    "parser"} : rule = "has_" \o g
             IN  f \notin DOMAIN config.d
      [] rule = "name_string" -> ~(field("name").py = "str" /\ field("name").s # "")
      [] rule = "base_url_string" -> ~(field("base_url").py = "str" /\ field("base_url").s # "")
      [] rule = "api_key_env_string" ->
             ~(field("api_key_env").py = "str" /\ field("api_key_env").s # "")
      [] rule = "models_endpoint_string" ->
             ~(field("models_endpoint").py = "str" /\ field("models_endpoint").s # "")
      [] rule = "base_url_scheme" ->
             /\ field("base_url").py = "str"
             /\ field("base_url").s \notin {"", "https://custom.example/v1",
                                            "http://localhost:8000/v1"}
      [] rule = "api_key_env_upper" ->
             /\ field("api_key_env").py = "str"
             /\ field("api_key_env").s \notin {"", "CUSTOM_API_KEY", "KEY_2"}
      [] rule = "parser_known" ->
             field("parser") \notin {PyStr("openai_compatible"), PyStr("openrouter")}
      [] rule = "credits_endpoint_type" ->
             /\ "credits_endpoint" \in DOMAIN config.d
             /\ field("credits_endpoint").py \notin {"None", "str"}

\* the message that reports a rule
RuleMessage(rule) ==
    CASE rule = "has_name" -> "Missing required field: name"
      [] rule = "has_base_url" -> "Missing required field: base_url"
      [] rule = "has_api_key_env" -> "Missing required field: api_key_env"
      [] rule = "has_models_endpoint" -> "Missing required field: models_endpoint"
      [] rule = "has_parser" -> "Missing required field: parser"
      [] rule = "name_string" -> "Invalid or missing 'name' field"
      [] rule = "base_url_string" -> "Invalid or missing 'base_url' field"
      [] rule = "api_key_env_string" -> "Invalid or missing 'api_key_env' field"
      [] rule = "models_endpoint_string" -> "Invalid or missing 'models_endpoint' field"
      [] rule = "base_url_scheme" -> "Invalid base_url: must start with http:// or https://"
      [] rule = "api_key_env_upper" -> "api_key_env should be uppercase"
      [] rule = "parser_known" ->
             "Invalid parser: must be one of ['openai_compatible', 'openrouter']"
      [] rule = "credits_endpoint_type" ->
             "Invalid 'credits_endpoint': must be a string or null"

\* the rules in the order the sentence lists them, and in the order of the checks
StatedOrder ==
    <<"has_name", "has_base_url", "has_api_key_env", "has_models_endpoint", "has_parser",
      "name_string", "base_url_string", "api_key_env_string", "models_endpoint_string",
      "base_url_scheme", "api_key_env_upper", "parser_known", "credits_endpoint_type">>

CheckedOrder ==
    <<"has_name", "has_base_url", "has_api_key_env", "has_models_endpoint", "has_parser",
      "name_string", "base_url_string", "base_url_scheme", "api_key_env_string",
      "api_key_env_upper", "models_endpoint_string", "parser_known",
      "credits_endpoint_type">>

\* what the validator is to return for a mapping when its rules are tried in `order`
Verdict(config, order) ==
    LET violated == {i \in DOMAIN order : Violates(config, order[i])} IN
    IF violated = {}
        THEN Valid
        ELSE Invalid(RuleMessage(order[CHOOSE i \in violated : \A j \in violated : i <= j]))

\* C18 as stated: validate_provider_config returns (True, "") exactly when no rule
\* is violated, and otherwise (False, message) with the message of the first
\* violated rule in the order: required fields present, the four fields non-empty
\* strings, base_url scheme, api_key_env upper case, parser, credits_endpoint.
C18_AsStated ==
    last.op = "validate_provider_config"
        => IF last.args.config = None
               THEN last.outcome.kind = "return" /\ last.outcome.value.is_valid = FALSE
               ELSE last.outcome = Verdict(last.args.config, StatedOrder)

\* C18: for a mapping, validate_provider_config returns (True, "") exactly when no
\* rule is violated, and otherwise (False, message) with the message of the first
\* violated rule in the order of its checks: required fields present, name a
\* non-empty string, base_url a non-empty string, base_url scheme, api_key_env a
\* non-empty string, api_key_env upper case, models_endpoint a non-empty string,
\* parser, credits_endpoint. For None it raises TypeError.
C18_Validate ==
    last.op = "validate_provider_config"
        => IF last.args.config = None
               THEN last.outcome = Raise(TypeError)
               ELSE last.outcome = Verdict(last.args.config, CheckedOrder)

\* a configuration that violates two rules whose order differs: its base_url has
\* no http scheme and its api_key_env is empty, and the scheme is what is reported
C18_Witness ==
    /\ last.op = "validate_provider_config"
    /\ last.args.config # None
    /\ Violates(last.args.config, "base_url_scheme")
    /\ Violates(last.args.config, "api_key_env_string")
    /\ last.outcome = Invalid("Invalid base_url: must start with http:// or https://")

(***************************************************************************)
(* main.py: import-provider.  YAML text is the tree yaml.dump writes and   *)
(* yaml.safe_load reads.                                                   *)
(***************************************************************************)
YNull == [yaml |-> "null"]
YStr(s) == [yaml |-> "str", s |-> s]
YInt(n) == [yaml |-> "int", n |-> n]
YMapping(d) == [yaml |-> "mapping", d |-> d]

RECURSIVE yaml_dump(_)
yaml_dump(x) ==
    CASE x.py = "None" -> YNull
      [] x.py = "str"  -> YStr(x.s)
      [] x.py = "int"  -> YInt(x.n)
      [] x.py = "dict" -> YMapping([k \in DOMAIN x.d |-> yaml_dump(x.d[k])])

RECURSIVE yaml_safe_load(_)
yaml_safe_load(t) ==
    CASE t.yaml = "null" -> None
      [] t.yaml = "str"  -> PyStr(t.s)
      [] t.yaml = "int"  -> PyInt(t.n)
      [] t.yaml = "mapping" -> PyDict([k \in DOMAIN t.d |-> yaml_safe_load(t.d[k])])

\* sys.exit(code)
SysExit(code) == [kind |-> "exit", code |-> code]

\* the except clauses of the command: ValueError, APIError, NetworkError and
\* their subclasses end in sys.exit(1), any other exception propagates
handled(error) ==
    \/ error.type \in {"ValueError", "APIError", "NetworkError"}
    \/ error.base \in {"ValueError", "APIError"}

on_exception(outcome) == IF handled(outcome.error) THEN SysExit(1) ELSE outcome

\* opening and writing the user's providers.yml
YamlIO == {"ok", "open_fails", "write_fails"}

\* the plugin file does not exist
NoPlugin == [py |-> "no_file"]

\* A variant of the update of the user catalog that writes only the new entry
user_providers_replaced(user, provider_name, config) ==
    [n \in {provider_name} |-> config]

\* user_providers_config.setdefault("providers", {})[provider_name] = config
user_providers_set(user, provider_name, config) ==
    [n \in DOMAIN user \cup {provider_name} |-> IF n = provider_name THEN config ELSE user[n]]

\* how import-provider ends
import_ended(outcome, fs, user, http_sent, ops) ==
    [outcome |-> outcome, files |-> fs, user |-> user, http |-> http_sent, cache_ops |-> ops]

\* the write of the user catalog; `kept` are the entries that reached the file
\* when the write failed part-way
import_written(new_user, user, yaml_io, kept) ==
    CASE yaml_io = "open_fails" -> [outcome |-> Raise(OSError), user |-> user]
      [] yaml_io = "write_fails" ->
             [outcome |-> Raise(OSError),
              user |-> [n \in kept \cap DOMAIN new_user |-> new_user[n]]]
      [] yaml_io = "ok" ->
             [outcome |-> Return(None),
              user |-> yaml_safe_load(
                           yaml_dump(PyDict([providers |-> PyDict(new_user)]))).d["providers"].d]

\* A variant of the end of import-provider that keeps the write of the user
\* catalog when get_models has raised
import_fetched_written_first(plugin, fetched, user, written) ==
    IF fetched.outcome.kind = "raise"
        THEN import_ended(on_exception(fetched.outcome), fetched.files, written.user,
                          fetched.http, fetched.cache_ops)
        ELSE import_ended(written.outcome, fetched.files, written.user, fetched.http,
                          fetched.cache_ops)

\* import-provider after get_models
import_fetched(plugin, fetched, user, written) ==
    IF fetched.outcome.kind = "raise"
        THEN import_ended(on_exception(fetched.outcome), fetched.files, user, fetched.http,
                          fetched.cache_ops)
        ELSE import_ended(written.outcome, fetched.files, written.user, fetched.http,
                          fetched.cache_ops)

\* import-provider after _create_provider_from_config
import_created(plugin, created, fs, t, user, response, io, yaml_io, kept) ==
    IF created.kind = "raise"
        THEN import_ended(on_exception(created), fs, user, <<>>, <<>>)
        ELSE import_fetched(plugin,
                 GenericProvider_get_models(created.value, fs, t, FALSE, response, io),
                 user,
                 import_written(user_providers_set(user, plugin.d["name"].s, plugin), user,
                                yaml_io, kept))

\* import-provider after validate_provider_config
import_validated(plugin, validated, api_key, env, fs, t, user, response, io, yaml_io, kept) ==
    IF validated.kind = "raise"
        THEN import_ended(on_exception(validated), fs, user, <<>>, <<>>)
    ELSE IF ~validated.value.is_valid
        THEN import_ended(SysExit(1), fs, user, <<>>, <<>>)
    ELSE import_created(plugin, _create_provider_from_config(plugin, api_key, env), fs, t,
                        user, response, io, yaml_io, kept)

\* import_provider: the outcome of the command, the cache files, the user catalog
\* and the requests it leaves
import_provider(plugin, api_key, env, fs, t, user, response, io, yaml_io, kept) ==
    IF plugin = NoPlugin
        THEN import_ended(SysExit(1), fs, user, <<>>, <<>>)
        ELSE import_validated(plugin, validate_provider_config(plugin), api_key, env, fs, t,
                              user, response, io, yaml_io, kept)

\* test-provider after get_models: the models are echoed, nothing is written
test_fetched(fetched, user) ==
    IF fetched.outcome.kind = "raise"
        THEN import_ended(on_exception(fetched.outcome), fetched.files, user, fetched.http,
                          fetched.cache_ops)
        ELSE import_ended(Return(None), fetched.files, user, fetched.http, fetched.cache_ops)

\* test-provider after _create_provider_from_config
test_created(created, fs, t, user, response, io) ==
    IF created.kind = "raise"
        THEN import_ended(on_exception(created), fs, user, <<>>, <<>>)
        ELSE test_fetched(GenericProvider_get_models(created.value, fs, t, FALSE, response, io),
                          user)

\* test-provider after validate_provider_config
test_validated(plugin, validated, api_key, env, fs, t, user, response, io) ==
    IF validated.kind = "raise"
        THEN import_ended(on_exception(validated), fs, user, <<>>, <<>>)
    ELSE IF ~validated.value.is_valid
        THEN import_ended(SysExit(1), fs, user, <<>>, <<>>)
    ELSE test_created(_create_provider_from_config(plugin, api_key, env), fs, t, user,
                      response, io)

\* test_provider: the outcome of the command, the cache files, the user catalog
\* and the requests it leaves
test_provider(plugin, api_key, env, fs, t, user, response, io) ==
    IF plugin = NoPlugin
        THEN import_ended(SysExit(1), fs, user, <<>>, <<>>)
        ELSE test_validated(plugin, validate_provider_config(plugin), api_key, env, fs, t,
                            user, response, io)

\* the plugin files given to the command: two valid configurations (one of a
\* built-in name), one the validator rejects, an empty document, no file
GroqPlugin ==
    ProviderConfig("groq", "https://imported.example/v1", "GROQ_API_KEY", "openrouter", None)
CustomPlugin ==
    ProviderConfig("custom", "https://imported.example/v1", "CUSTOM_API_KEY",
                   "openai_compatible", PyStr("/credits"))

Plugins == {GroqPlugin, CustomPlugin, CustomUnknownParser, None, NoPlugin}

\* the responses to the request of the command: a transport failure, a refusal,
\* a body that is no JSON, a list of models
ImportResponses ==
    {NoResponse,
     [kind |-> "response", status_code |-> 401, body |-> NotJson],
     [kind |-> "response", status_code |-> 200, body |-> NotJson],
     [kind |-> "response", status_code |-> 200,
      body |-> JObject([data |-> JArray(<<EntryFull1, EntryFull2>>)])]}

\* the cache write of the command succeeds or the cache file cannot be opened
ImportSetIO == {"ok", "open_fails"}

\* yaml.dump writes the entries in the order of their sorted keys: what a failed
\* write leaves is a prefix of them
yaml_key_order == <<"alias", "custom", "groq">>

WrittenPrefixes == {{yaml_key_order[i] : i \in 1..n} : n \in 0..Len(yaml_key_order)}

ImportProvider ==
    \E plugin \in Plugins, api_key \in {None, PyStr("sk-given")} :
    LET try(response, io, yaml_io, kept) ==
            import_provider(plugin, api_key, environ, files, now, catalogs.user,
                            response, io, yaml_io, kept)
    IN
    \E response \in IF try(NoResponse, "ok", "ok", {}).http # <<>>
                        THEN ImportResponses ELSE {NoResponse} :
    \E io \in IF try(response, "ok", "ok", {}).cache_ops # <<>> THEN ImportSetIO ELSE {"ok"} :
    \E yaml_io \in IF try(response, io, "ok", {}).outcome = Return(None)
                       THEN YamlIO ELSE {"ok"} :
    \E kept \in IF yaml_io = "write_fails" THEN WrittenPrefixes ELSE {{}} :
        LET r == try(response, io, yaml_io, kept) IN
        /\ files' = r.files
        /\ http' = r.http
        /\ cache_ops' = r.cache_ops
        /\ catalogs' = [catalogs EXCEPT !.user = r.user]
        /\ last' = Call("import_provider", "",
                        [plugin |-> plugin, api_key |-> api_key,
                         user_names |-> DOMAIN catalogs.user],
                        r.outcome)
        /\ UNCHANGED <<now, environ, self, entry, disk, writers, listing>>

TestProvider ==
    \E plugin \in Plugins, api_key \in {None, PyStr("sk-given")} :
    LET try(response, io) ==
            test_provider(plugin, api_key, environ, files, now, catalogs.user, response, io)
    IN
    \E response \in IF try(NoResponse, "ok").http # <<>>
                        THEN ImportResponses ELSE {NoResponse} :
    \E io \in IF try(response, "ok").cache_ops # <<>> THEN ImportSetIO ELSE {"ok"} :
        LET r == try(response, io) IN
        /\ files' = r.files
        /\ http' = r.http
        /\ cache_ops' = r.cache_ops
        /\ catalogs' = [catalogs EXCEPT !.user = r.user]
        /\ last' = Call("test_provider", "",
                        [plugin |-> plugin, api_key |-> api_key,
                         user_names |-> DOMAIN catalogs.user],
                        r.outcome)
        /\ UNCHANGED <<now, environ, self, entry, disk, writers, listing>>

NextRegistry == GetProvider \/ GetProviders \/ ImportProvider \/ TestProvider

SpecRegistry == InitRegistry /\ [][NextRegistry]_vars

(***************************************************************************)
(* C17: what a successful import leaves in the user catalog                *)
(***************************************************************************)
\* C17: when import-provider completes for a plugin configuration c, the user
\* catalog maps c.name to c, every other user entry is as it was, the built-in
\* catalog is as it was, and get_provider(c.name) returns a provider built from c,
\* whether or not a built-in or an earlier user entry has that name.
C17_Import ==
    [][(last'.op = "import_provider" /\ last'.outcome = Return(None))
        => LET c == last'.args.plugin
               name == c.d["name"].s
           IN  /\ DOMAIN catalogs'.user = DOMAIN catalogs.user \cup {name}
               /\ catalogs'.user[name] = c
               /\ \A n \in DOMAIN catalogs.user \ {name} : catalogs'.user[n] = catalogs.user[n]
               /\ catalogs'.builtin = catalogs.builtin
               /\ \A api_key \in {None, PyStr("sk-given")} :
                      LET p == get_provider(catalogs', name, api_key, environ') IN
                      /\ p.kind = "return"
                      /\ BuiltFrom(p.value, c)]_vars

\* an import of a configuration named groq has completed where the built-in
\* catalog and the user catalog both had a groq entry, next to another user entry
C17_Witness ==
    /\ last.op = "import_provider"
    /\ last.outcome = Return(None)
    /\ last.args.plugin = GroqPlugin
    /\ {"groq", "custom"} \subseteq last.args.user_names
    /\ "groq" \in DOMAIN catalogs.builtin
    /\ catalogs.user["groq"] = GroqPlugin
    /\ catalogs.user["custom"] = CustomUser

(***************************************************************************)
(* main.py: the commands `credits` and `list models`.  A command ends by   *)
(* returning (exit code 0), by sys.exit(code), or with an exception that   *)
(* no handler catches (a traceback, exit code 1).                          *)
(***************************************************************************)
UnboundLocalError == [type |-> "UnboundLocalError", base |-> "NameError"]

exit_code(outcome) ==
    CASE outcome.kind = "return" -> 0
      [] outcome.kind = "exit" -> outcome.code
      [] outcome.kind = "raise" -> 1

\* how `credits` ends after get_credits: the balance on stdout; no balance and
\* every exception (`except ValueError`, `except Exception`) end in sys.exit(1)
credits_of(credits_info) ==
    [outcome |-> IF credits_info.outcome.kind = "raise" \/ credits_info.outcome.value = None
                     THEN SysExit(1) ELSE Return(None),
     stdout |-> IF credits_info.outcome.kind = "raise" \/ credits_info.outcome.value = None
                    THEN <<>> ELSE <<credits_info.outcome.value>>,
     http |-> credits_info.http,
     credits_info |-> credits_info.outcome]

credits_created(created, response) ==
    IF created.kind = "raise"
        THEN [outcome |-> SysExit(1), stdout |-> <<>>, http |-> <<>>, credits_info |-> created]
        ELSE credits_of(GenericProvider_get_credits(created.value, response))

\* credits: get_provider, get_credits, then the balance
credits_command(cats, provider, env, response) ==
    credits_created(get_provider(cats, provider, None, env), response)

\* [(provider_instance.provider_name, m) for m in models]
with_provider(provider, models) ==
    [i \in DOMAIN models.items |-> <<provider.provider_name_value, models.items[i]>>]

\* one turn of the loop of `list models`: what get_models gave for the provider
\* is added to what the turns before have left
loop_turn(before, provider_name, provider, r) ==
    [fetched |-> Append(before.fetched, [provider |-> provider_name, outcome |-> r.outcome]),
     files |-> r.files,
     http |-> before.http \o r.http,
     all_models |-> IF r.outcome.kind = "raise" THEN <<>>
                    ELSE before.all_models \o with_provider(provider, r.outcome.value),
     raised |-> r.outcome.kind = "raise"]

\* A variant of the loop that goes on to the next provider after one has raised
models_loop_continuing(providers, order, fs, t, force, responses, ios) ==
    LET after[i \in 0..Len(order)] ==
            IF i = 0
                THEN [fetched |-> <<>>, files |-> fs, http |-> <<>>, all_models |-> <<>>,
                      raised |-> FALSE]
            ELSE loop_turn(after[i - 1], order[i], providers[order[i]],
                           GenericProvider_get_models(providers[order[i]], after[i - 1].files,
                                                      t, ~force, responses[order[i]],
                                                      ios[order[i]]))
    IN  after[Len(order)]

\* the loop of `list models` over providers.items(): the get_models calls made
\* (the loop ends at the first that raises), the cache files and all_models
models_loop(providers, order, fs, t, force, responses, ios) ==
    LET after[i \in 0..Len(order)] ==
            IF i = 0
                THEN [fetched |-> <<>>, files |-> fs, http |-> <<>>, all_models |-> <<>>,
                      raised |-> FALSE]
            ELSE IF after[i - 1].raised
                THEN after[i - 1]
            ELSE loop_turn(after[i - 1], order[i], providers[order[i]],
                           GenericProvider_get_models(providers[order[i]], after[i - 1].files,
                                                      t, ~force, responses[order[i]],
                                                      ios[order[i]]))
    IN  after[Len(order)]

\* the order of providers.items(): the built-in names, then the names only the
\* user catalog has
items_order(cats) ==
    SelectSeq(<<"groq", "openrouter", "custom", "alias">>,
              LAMBDA n : n \in DOMAIN cats.builtin \cup DOMAIN cats.user)

\* how `list models` ends
models_ended(outcome, fetched, fs, http_sent, stdout) ==
    [outcome |-> outcome, fetched |-> fetched, files |-> fs, http |-> http_sent,
     stdout |-> stdout]

\* the branch with --provider after get_models: `len(all_models)` is evaluated
\* while only the other branch assigns all_models
models_of_one_fetched(provider_name, fetched) ==
    models_ended(on_exception(IF fetched.outcome.kind = "raise"
                                  THEN fetched.outcome ELSE Raise(UnboundLocalError)),
                 <<[provider |-> provider_name, outcome |-> fetched.outcome]>>,
                 fetched.files, fetched.http, <<>>)

\* the branch with --provider after get_provider
models_of_one(provider_name, created, fs, t, force, response, io) ==
    IF created.kind = "raise"
        THEN models_ended(on_exception(created), <<>>, fs, <<>>, <<>>)
        ELSE models_of_one_fetched(provider_name,
                 GenericProvider_get_models(created.value, fs, t, ~force, response, io))

\* the branch without --provider after the loop
models_of_all_fetched(loop) ==
    IF loop.raised
        THEN models_ended(on_exception(loop.fetched[Len(loop.fetched)].outcome),
                          loop.fetched, loop.files, loop.http, <<>>)
        ELSE models_ended(Return(None), loop.fetched, loop.files, loop.http, loop.all_models)

\* the branch without --provider after get_providers
models_of_all(providers, order, fs, t, force, responses, ios) ==
    IF providers.kind = "raise"
        THEN models_ended(on_exception(providers), <<>>, fs, <<>>, <<>>)
        ELSE models_of_all_fetched(
                 models_loop(providers.value, order, fs, t, force, responses, ios))

\* list models: with --provider the models of that provider, else those of every
\* provider of the registry
models_command(cats, provider, force, env, fs, t, responses, ios) ==
    IF truthy(provider)
        THEN models_of_one(provider.s, get_provider(cats, provider.s, None, env), fs, t, force,
                           responses[provider.s], ios[provider.s])
        ELSE models_of_all(get_providers(cats, env), items_order(cats), fs, t, force,
                           responses, ios)

\* The commands run against the built-in catalog, with both keys in the
\* environment or only the key of groq; a request is answered by a transport
\* failure, a refusal or a list of models, and a cache write succeeds or not.
CliEnvironments ==
    {[GROQ_API_KEY |-> PyStr("sk-env-groq"), OPENROUTER_API_KEY |-> PyStr("sk-env-or")],
     [GROQ_API_KEY |-> PyStr("sk-env-groq")]}

CliNames == {"groq", "openrouter"}

CliProviders == {None, PyStr("groq"), PyStr("openrouter"), PyStr("nonexistent")}

CliModelsResponses ==
    {NoResponse,
     [kind |-> "response", status_code |-> 401, body |-> NotJson],
     [kind |-> "response", status_code |-> 200,
      body |-> JObject([data |-> JArray(<<EntryFull1, EntryFull2>>)])]}

CliCreditsResponses ==
    {NoResponse,
     [kind |-> "response", status_code |-> 200,
      body |-> JObject([data |-> JObject([total_credits |-> JNumber(10),
                                          total_usage |-> JNumber(3)])])]}

CliSetIO == {"ok", "open_fails"}

CreditsCommand ==
    \E provider \in {"groq", "openrouter", "nonexistent"}, response \in CliCreditsResponses :
        LET r == credits_command(catalogs, provider, environ, response) IN
        /\ http' = r.http
        /\ cache_ops' = <<>>
        /\ last' = Call("credits", provider,
                        [credits_info |-> r.credits_info, stdout |-> r.stdout],
                        r.outcome)
        /\ UNCHANGED <<now, environ, disk, writers, catalogs, files, self, entry, listing>>

ModelsCommand ==
    \E provider \in CliProviders, force \in BOOLEAN :
    \E for_groq, for_openrouter \in CliModelsResponses, io_groq, io_openrouter \in CliSetIO :
        LET unused(n) == provider # None /\ provider.s # n
            r == models_command(catalogs, IF provider = None THEN PyStr("") ELSE provider,
                                force, environ, files, now,
                                [groq |-> for_groq, openrouter |-> for_openrouter,
                                 nonexistent |-> NoResponse],
                                [groq |-> io_groq, openrouter |-> io_openrouter,
                                 nonexistent |-> "ok"])
        IN
        /\ unused("groq") => (for_groq = NoResponse /\ io_groq = "ok")
        /\ unused("openrouter") => (for_openrouter = NoResponse /\ io_openrouter = "ok")
        /\ files' = r.files
        /\ http' = r.http
        /\ cache_ops' = <<>>
        /\ last' = Call("list_models", IF provider = None THEN "" ELSE provider.s,
                        [force |-> force, fetched |-> r.fetched, stdout |-> r.stdout],
                        r.outcome)
        /\ UNCHANGED <<now, environ, disk, writers, catalogs, self, entry, listing>>

InitCli ==
    /\ now = 0
    /\ environ \in CliEnvironments
    /\ files = [f \in RegistryCacheFiles |-> NoFile]
    /\ self = NoProvider
    /\ last = NoCall
    /\ http = <<>>
    /\ cache_ops = <<>>
    /\ entry = [p \in ProviderNames |-> NoEntry]
    /\ disk = NoDisk
    /\ writers = NoWriters
    /\ catalogs = [builtin |-> BuiltinCatalog, user |-> <<>>]
    /\ listing = NoListing

NextCli == CreditsCommand \/ ModelsCommand \/ Tick

SpecCli == InitCli /\ [][NextCli]_vars

(***************************************************************************)
(* C19, C20: exit codes of `list models` and `credits`                     *)
(***************************************************************************)
\* every get_models call of the command returned, and at least one was made
AllFetched == 
    /\ last.args.fetched # <<>>
    /\ \A i \in DOMAIN last.args.fetched : last.args.fetched[i].outcome.kind = "return"

\* the models the calls returned, each with the name of its provider
Retrieved ==
    LET RECURSIVE from(_)
        from(i) == IF i > Len(last.args.fetched) THEN <<>>
                   ELSE [j \in DOMAIN last.args.fetched[i].outcome.value.items |->
                            <<last.args.fetched[i].provider,
                              last.args.fetched[i].outcome.value.items[j]>>] \o from(i + 1)
    IN  from(1)

\* C19 as stated: when get_models has returned for every provider that `list
\* models` queried, with or without --provider, the command has rendered the
\* retrieved models and its exit code is 0.
C19_AsStated ==
    (last.op = "list_models" /\ AllFetched)
        => /\ exit_code(last.outcome) = 0
           /\ last.args.stdout = Retrieved

\* `list models --provider groq` fetched the models of groq and ended with an
\* UnboundLocalError, exit code 1, nothing rendered
C19_Witness ==
    /\ last.op = "list_models"
    /\ last.provider = "groq"
    /\ AllFetched
    /\ Len(last.args.fetched[1].outcome.value.items) = 2
    /\ last.outcome = Raise(UnboundLocalError)
    /\ exit_code(last.outcome) = 1
    /\ last.args.stdout = <<>>

\* C20 as stated: when get_credits has returned None for the provider of the
\* `credits` command, the exit code of the command is 0.
C20_AsStated ==
    (last.op = "credits" /\ last.args.credits_info = Return(None))
        => exit_code(last.outcome) = 0

\* `credits --provider groq` with a key for groq: get_credits returned None and
\* the command ended in sys.exit(1)
C20_Witness ==
    /\ last.op = "credits"
    /\ last.provider = "groq"
    /\ last.args.credits_info = Return(None)
    /\ last.outcome = SysExit(1)

(***************************************************************************)
(* main.py: `list models` without --provider, call by call.  run() is one  *)
(* coroutine: at `await provider_instance.get_models(...)` it is suspended *)
(* until that call has returned or raised.                                 *)
(***************************************************************************)
\* A variant of the loop that does not wait for a call before the next
may_call_unawaited(l) == TRUE

\* the loop may enter get_models of the next provider: run() is not suspended in
\* the `await` of an earlier call
may_call(l) == l.outstanding = {}

\* nothing fetched yet
NoTurns == [fetched |-> <<>>, files |-> <<>>, http |-> <<>>, all_models |-> <<>>, raised |-> FALSE]

\* providers = get_providers(); all_models = []
ListStart ==
    /\ listing.pc = "idle"
    /\ \E force \in BOOLEAN :
           listing' = [pc |-> "loop", force |-> force, i |-> 0, outstanding |-> {},
                       turns |-> NoTurns]
    /\ http' = <<>>
    /\ cache_ops' = <<>>
    /\ UNCHANGED <<now, environ, files, self, last, entry, disk, writers, catalogs>>

\* the loop enters get_models of the next provider of providers.items(): the call
\* ends at once (no key, a cache hit, a cache file that cannot be read) or sends
\* its request
ListCall ==
    /\ listing.pc = "loop"
    /\ ~listing.turns.raised
    /\ listing.i < Len(items_order(catalogs))
    /\ may_call(listing)
    /\ LET provider_name == items_order(catalogs)[listing.i + 1]
           provider == get_providers(catalogs, environ).value[provider_name]
           r == GenericProvider_get_models(provider, files, now, ~listing.force, NoResponse, "ok")
       IN  IF r.http # <<>>
               THEN /\ listing' = [listing EXCEPT !.i = @ + 1,
                                                  !.outstanding = @ \cup {provider_name}]
                    /\ http' = http \o r.http
               ELSE /\ listing' = [listing EXCEPT !.i = @ + 1,
                                                  !.turns = loop_turn(@, provider_name, provider, r)]
                    /\ http' = http
    /\ UNCHANGED <<now, environ, files, self, last, cache_ops, entry, disk, writers, catalogs>>

\* the response to a request arrives: get_models parses it, writes the cache and
\* returns, or raises
ListReturn ==
    /\ listing.pc = "loop"
    /\ \E provider_name \in listing.outstanding :
       \E response \in CliModelsResponses :
       LET provider == get_providers(catalogs, environ).value[provider_name] IN
       \E io \in SetIOConsumed(calls_set(
                 GenericProvider_get_models(provider, files, now, ~listing.force, response, "ok"))) :
           LET r == GenericProvider_get_models(provider, files, now, ~listing.force, response, io)
           IN  /\ listing' = [listing EXCEPT
                                 !.outstanding = @ \ {provider_name},
                                 !.turns = loop_turn(@, provider_name, provider,
                                                     [r EXCEPT !.http = <<>>])]
               /\ files' = r.files
    /\ UNCHANGED <<now, environ, self, last, http, cache_ops, entry, disk, writers, catalogs>>

\* the loop is over, or a call has raised: the command renders and returns, or
\* ends in its handlers
ListEnd ==
    /\ listing.pc = "loop"
    /\ \/ listing.turns.raised
       \/ listing.i = Len(items_order(catalogs)) /\ listing.outstanding = {}
    /\ LET r == models_of_all_fetched([listing.turns EXCEPT !.files = files, !.http = http]) IN
       last' = Call("list_models", "",
                    [force |-> listing.force, fetched |-> r.fetched, stdout |-> r.stdout],
                    r.outcome)
    /\ listing' = NoListing
    /\ UNCHANGED <<now, environ, files, self, http, cache_ops, entry, disk, writers, catalogs>>

InitList ==
    /\ now = 0
    /\ environ \in CliEnvironments
    /\ files = [f \in RegistryCacheFiles |-> NoFile]
    /\ self = NoProvider
    /\ last = NoCall
    /\ http = <<>>
    /\ cache_ops = <<>>
    /\ entry = [p \in ProviderNames |-> NoEntry]
    /\ disk = NoDisk
    /\ writers = NoWriters
    /\ catalogs = [builtin |-> BuiltinCatalog, user |-> <<>>]
    /\ listing = NoListing

NextList == ListStart \/ ListCall \/ ListReturn \/ ListEnd \/ Tick

SpecList == InitList /\ [][NextList]_vars

(***************************************************************************)
(* C21: the calls of `list models` are made one after another              *)
(***************************************************************************)
\* C21: while `list models` runs over all providers, at most one request awaits
\* its response; get_models of a provider is entered only when the calls of all
\* providers before it in catalog order have returned; and the calls returned
\* are those of the first providers of the catalog, in catalog order.
C21_OneAfterAnother ==
    [][listing'.pc = "loop"
        => /\ Cardinality(listing'.outstanding) <= 1
           /\ (listing.pc = "loop" /\ listing'.i = listing.i + 1)
                  => /\ listing.outstanding = {}
                     /\ Len(listing.turns.fetched) = listing.i
           /\ \A k \in DOMAIN listing'.turns.fetched :
                  listing'.turns.fetched[k].provider = items_order(catalogs)[k]]_vars

\* the request of openrouter, the second provider, awaits its response after the
\* call of groq, the first, has sent its own request and returned
C21_Witness ==
    /\ listing.pc = "loop"
    /\ listing.i = 2
    /\ listing.outstanding = {"openrouter"}
    /\ Len(listing.turns.fetched) = 1
    /\ listing.turns.fetched[1].provider = "groq"
    /\ listing.turns.fetched[1].outcome.kind = "return"
    /\ Len(http) = 2

(***************************************************************************)
(* models.py: select_best_free_model.  The models are ModelInfo objects:   *)
(* schemas.ModelInfo declares id, name, context_length and pricing, and    *)
(* pydantic drops every other keyword it is constructed with.              *)
(***************************************************************************)
\* hasattr(m, name)
hasattr(m, name) == name \in DOMAIN m

\* float(s) for the price strings of the model, in hundredths
float_of(s) == CASE s = "0.00" -> 0 [] s = "0.01" -> 1 [] s = "999999" -> 99999900

\* key=lambda m: float(m.pricing.get("prompt", "999999")) if m.pricing else 999999
price_key(m) ==
    IF m.pricing # None /\ DOMAIN m.pricing.d # {}
        THEN float_of(dict_get(m.pricing, "prompt", PyStr("999999")).s)
        ELSE 99999900

\* candidates.sort(key=...); candidates[0]: list.sort is stable, so the first of
\* the candidates with the least key
first_of_sorted(models, candidates) ==
    models[CHOOSE i \in candidates :
               \A j \in candidates :
                   \/ price_key(models[i]) < price_key(models[j])
                   \/ price_key(models[i]) = price_key(models[j]) /\ i <= j]

\* (m.context_length or 0) > 32000
long_context(m) == m.context_length # None /\ m.context_length.n > 32000

\* select_best_free_model: `m.is_free` is read of every model of the list, and
\* raises AttributeError on an object without that attribute
select_best_free_model(models) ==
    LET free_models == {i \in DOMAIN models : models[i].is_free}
        candidates == {i \in free_models : long_context(models[i])}
    IN  IF \E i \in DOMAIN models : ~hasattr(models[i], "is_free")
            THEN Raise(AttributeError)
        ELSE IF free_models = {}
            THEN Raise(ValueError("No free models available"))
        ELSE Return(first_of_sorted(models, IF candidates = {} THEN free_models
                                            ELSE candidates))

\* the lists given to the function: up to two ModelInfo objects, as the parsers
\* and the tests construct them, with ids that end in ":free" or not, a short, a
\* long or no context length, and no, an empty or a priced pricing
SelectModels ==
    {ModelInfo(id, id, context_length, pricing) :
        id \in {"model1:free", "model2:free", "model3"},
        context_length \in {None, PyInt(32000), PyInt(131072)},
        pricing \in {None, PyDict(<<>>), PyDict([prompt |-> PyStr("0.00")]),
                     PyDict([prompt |-> PyStr("0.01")])}}

SelectInputs == {<<>>} \cup {<<m>> : m \in SelectModels}
                \cup {<<m1, m2>> : m1 \in SelectModels, m2 \in SelectModels}

SelectBestFreeModel ==
    \E models \in SelectInputs :
        /\ last' = Call("select_best_free_model", "", [models |-> models],
                        select_best_free_model(models))
        /\ UNCHANGED <<now, environ, files, self, http, cache_ops, entry, disk, writers,
                       catalogs, listing>>

InitSelect ==
    /\ now = 0
    /\ environ = RegistryEnviron
    /\ files = [f \in CacheFiles |-> NoFile]
    /\ self = NoProvider
    /\ last = NoCall
    /\ http = <<>>
    /\ cache_ops = <<>>
    /\ entry = [p \in ProviderNames |-> NoEntry]
    /\ disk = NoDisk
    /\ writers = NoWriters
    /\ catalogs = NoCatalogs
    /\ listing = NoListing

NextSelect == SelectBestFreeModel

SpecSelect == InitSelect /\ [][NextSelect]_vars

(***************************************************************************)
(* C22: the choice of select_best_free_model                               *)
(***************************************************************************)
\* a model is free by the convention of its id
FreeById(m) == m.id \in {"model1:free", "model2:free"}

\* the prompt price of a model in hundredths, above every price when it has none
PromptPrice(m) ==
    IF m.pricing = None \/ "prompt" \notin DOMAIN m.pricing.d THEN 99999900
    ELSE CASE m.pricing.d["prompt"].s = "0.00" -> 0 [] m.pricing.d["prompt"].s = "0.01" -> 1

\* C22 as stated: select_best_free_model raises ValueError when no model of the
\* list is free; otherwise it returns, of the free models with a context length
\* above 32000 (of all free models when there is none), the one with the lowest
\* prompt price, a missing price counting as the highest, the earliest on a tie.
C22_AsStated ==
    last.op = "select_best_free_model"
        => LET models == last.args.models
               free == {i \in DOMAIN models : FreeById(models[i])}
               long == {i \in free : models[i].context_length # None
                                     /\ models[i].context_length.n > 32000}
               among == IF long = {} THEN free ELSE long
           IN  IF free = {}
                   THEN /\ last.outcome.kind = "raise"
                        /\ last.outcome.error.type = "ValueError"
                   ELSE /\ last.outcome.kind = "return"
                        /\ \E i \in among :
                               /\ last.outcome.value = models[i]
                               /\ \A j \in among :
                                      \/ PromptPrice(models[i]) < PromptPrice(models[j])
                                      \/ PromptPrice(models[i]) = PromptPrice(models[j])
                                         /\ i <= j

\* the function was given a free model with a long context and a price, and
\* raised AttributeError
C22_Witness ==
    /\ last.op = "select_best_free_model"
    /\ Len(last.args.models) = 2
    /\ last.args.models[2] = ModelInfo("model2:free", "model2:free", PyInt(131072),
                                       PyDict([prompt |-> PyStr("0.00")]))
    /\ last.outcome = Raise(AttributeError)

(***************************************************************************)
(* parsers.py on decoded responses, alone and inside get_models            *)
(***************************************************************************)
\* the entries of a models list: complete, without name, without id, empty, with
\* an id that is no string, and an entry that is no mapping
ParserEntries ==
    {PyDict([id |-> PyStr("model1"), name |-> PyStr("Model 1"), context_length |-> PyInt(1000)]),
     PyDict([id |-> PyStr("model2"), name |-> PyStr("Model 2"),
             pricing |-> PyDict([prompt |-> PyStr("0.0")])]),
     PyDict([id |-> PyStr("model1")]),
     PyDict([name |-> PyStr("Model 3")]),
     PyDict(<<>>),
     PyDict([id |-> PyInt(5), name |-> PyStr("Model 5")]),
     PyStr("model6")}

\* what a response holds under a key: a list of up to two entries, null, a
\* string, a mapping (each empty or not) or a number
ParserData ==
    {PyList(<<>>)} \cup {PyList(<<e>>) : e \in ParserEntries}
    \cup {PyList(<<e1, e2>>) : e1 \in ParserEntries, e2 \in ParserEntries}
    \cup {None, PyStr("not_a_list"), PyStr(""), PyDict(<<>>), PyDict([id |-> PyStr("model1")]),
          PyInt(5)}

\* the decoded responses: a mapping without the key, with it, with another key,
\* and a body that is a list
ParserResponses ==
    {PyDict(<<>>), PyList(<<>>), PyDict([models |-> PyList(<<PyDict([id |-> PyStr("model1")])>>)])}
    \cup {PyDict([data |-> d]) : d \in ParserData}

Parsers == {OpenAICompatibleParser("data"), OpenAICompatibleParser("models"), OpenRouterParser}

\* the credit fields: absent, a number, null
CreditValues == {Absent, PyInt(0), PyInt(3), PyInt(10), None}

CreditsResponses ==
    {PyDict(<<>>), PyDict([data |-> None]), PyDict([data |-> PyList(<<>>)])}
    \cup {PyDict([data |-> config_of([total_credits |-> c, total_usage |-> u])]) :
             c \in CreditValues, u \in CreditValues}

ParseModels ==
    \E parser \in Parsers, response \in ParserResponses :
        /\ last' = Call("parse_models", parser.cls, [parser |-> parser, response |-> response],
                        parse_models(parser, response))
        /\ http' = <<>>
        /\ cache_ops' = <<>>
        /\ UNCHANGED <<now, environ, files, self, entry, disk, writers, catalogs, listing>>

ParseCredits ==
    \E parser \in Parsers, response \in CreditsResponses :
        /\ last' = Call("parse_credits", parser.cls, [parser |-> parser, response |-> response],
                        parse_credits(parser, response))
        /\ http' = <<>>
        /\ cache_ops' = <<>>
        /\ UNCHANGED <<now, environ, files, self, entry, disk, writers, catalogs, listing>>

\* the OpenRouter provider of the built-in catalog, with a key
ParsingProvider == _create_provider_from_config(OpenRouterBuiltin, PyStr("sk-given"), <<>>).value

\* get_models of that provider, answered with status 200 and the response as body
FetchParsed ==
    \E response \in ParserResponses, use_cache \in BOOLEAN :
        LET r == GenericProvider_get_models(ParsingProvider, files, now, use_cache,
                     [kind |-> "response", status_code |-> 200, body |-> json_dumps(response)],
                     "ok")
        IN
        /\ files' = r.files
        /\ http' = r.http
        /\ cache_ops' = r.cache_ops
        /\ last' = Call("get_models", "openrouter",
                        [parser |-> ParsingProvider.parser, response |-> response,
                         use_cache |-> use_cache],
                        r.outcome)
        /\ UNCHANGED <<now, environ, self, entry, disk, writers, catalogs, listing>>

InitParse ==
    /\ now = 0
    /\ environ = <<>>
    /\ files = [f \in CacheFiles |-> NoFile]
    /\ self = NoProvider
    /\ last = NoCall
    /\ http = <<>>
    /\ cache_ops = <<>>
    /\ entry = [p \in ProviderNames |-> NoEntry]
    /\ disk = NoDisk
    /\ writers = NoWriters
    /\ catalogs = NoCatalogs
    /\ listing = NoListing

NextParse == ParseModels \/ ParseCredits \/ FetchParsed

SpecParse == InitParse /\ [][NextParse]_vars

(***************************************************************************)
(* C23: OpenAICompatibleParser.parse_models                                *)
(***************************************************************************)
\* the last call is parse_models of an OpenAI-compatible parser on a mapping
OpenAIParsed ==
    /\ last.op = "parse_models"
    /\ last.args.parser.cls = "OpenAICompatibleParser"
    /\ last.args.response.py = "dict"

\* the value under the configured key is a list
HasList(response, key) == key \in DOMAIN response.d /\ response.d[key].py = "list"

\* an entry the parser can convert: a mapping whose id, if any, is a string, whose
\* context_length, if any, is an integer or null and whose pricing, if any, is a
\* mapping or null
Convertible(e) ==
    /\ e.py = "dict"
    /\ "id" \in DOMAIN e.d => e.d["id"].py = "str"
    /\ "context_length" \in DOMAIN e.d => e.d["context_length"].py \in {"int", "None"}
    /\ "pricing" \in DOMAIN e.d => e.d["pricing"].py \in {"dict", "None"}

\* the id the parser gives the model of an entry
IdOf(e) == IF "id" \in DOMAIN e.d THEN e.d["id"].s ELSE ""

OpenRouterParsed(r, sent) ==
    /\ \/ r.op = "parse_models"
       \/ r.op = "get_models" /\ sent # <<>>
    /\ r.args.parser.cls = "OpenRouterParser"
    /\ r.args.response.py = "dict"

\* a mapping entry without id or without name
Lacks(e) == e.py = "dict" /\ ~({"id", "name"} \subseteq DOMAIN e.d)

\* what the conversion of an entry raises, if anything
EntryFault(e) ==
    IF e.py # "dict" THEN <<TypeError>>
    ELSE IF "id" \notin DOMAIN e.d THEN <<KeyError("id")>>
    ELSE IF "name" \notin DOMAIN e.d THEN <<KeyError("name")>>
    ELSE IF e.d["id"].py # "str" \/ e.d["name"].py # "str" THEN <<ValidationError>>
    ELSE <<>>

\* C24 as stated: when an entry of the data list lacks id or name, parse_models
\* of the OpenRouter parser raises the missing-field fault (KeyError) and returns
\* no list; inside get_models the fault leaves the cache files as they were and
\* CacheManager.set is not called.
C24_AsStated ==
    [][(/\ OpenRouterParsed(last', http')
        /\ HasList(last'.args.response, "data")
        /\ \E i \in DOMAIN last'.args.response.d["data"].items :
               Lacks(last'.args.response.d["data"].items[i]))
        => /\ last'.outcome.kind = "raise"
           /\ last'.outcome.error.type = "KeyError"
           /\ last'.op = "get_models" => (files' = files /\ cache_ops' \in {<<>>, <<"get">>})]_vars

\* C24: when an entry of the data list lacks id or name, parse_models of the
\* OpenRouter parser raises and returns no list: what it raises is the fault of
\* the first entry it cannot convert, KeyError of the missing field when that is
\* the entry without id or name, TypeError or ValidationError when an entry
\* before it is no mapping or has an id or name that is no string.  Inside
\* get_models the fault leaves the cache files as they were and CacheManager.set
\* is not called.
C24_MissingField ==
    [][(/\ OpenRouterParsed(last', http')
        /\ HasList(last'.args.response, "data")
        /\ \E i \in DOMAIN last'.args.response.d["data"].items :
               Lacks(last'.args.response.d["data"].items[i]))
        => LET entries == last'.args.response.d["data"].items
               bad == {i \in DOMAIN entries : EntryFault(entries[i]) # <<>>}
               first_bad == CHOOSE i \in bad : \A j \in bad : i <= j
           IN  /\ last'.outcome = Raise(EntryFault(entries[first_bad])[1])
               /\ Lacks(entries[first_bad]) => last'.outcome.error.type = "KeyError"
               /\ last'.op = "get_models"
                      => (files' = files /\ cache_ops' \in {<<>>, <<"get">>})]_vars

\* get_models has sent its request, the second entry of the list it got has no
\* name, KeyError was raised and no cache file exists
C24_Witness ==
    /\ last.op = "get_models"
    /\ http # <<>>
    /\ last.args.response =
           PyDict([data |-> PyList(<<PyDict([id |-> PyStr("model1"), name |-> PyStr("Model 1"),
                                             context_length |-> PyInt(1000)]),
                                     PyDict([id |-> PyStr("model1")])>>)])
    /\ last.outcome = Raise(KeyError("name"))
    /\ \A f \in DOMAIN files : files[f] = NoFile
    /\ "set" \notin {cache_ops[i] : i \in DOMAIN cache_ops}

\* C25 as stated: parse_models of the OpenRouter parser raises the wrong-type
\* fault (TypeError) for every response whose data is present and is a string, a
\* mapping, a number or null; of the responses whose data is no list, only the one
\* without the data key gives the empty list.
C25_AsStated ==
    (OpenRouterParsed(last, <<>>) /\ ~HasList(last.args.response, "data"))
        => IF "data" \in DOMAIN last.args.response.d
               THEN last.outcome = Raise(TypeError)
               ELSE last.outcome = Return(PyList(<<>>))

\* C25: parse_models of the OpenRouter parser raises TypeError for every response
\* whose data is present and is a non-empty string, a non-empty mapping, a number
\* or null; it returns the empty list when the data key is missing and when data
\* is the empty string or the empty mapping.
C25_WrongType ==
    (OpenRouterParsed(last, <<>>) /\ ~HasList(last.args.response, "data"))
        => LET response == last.args.response
               empty == /\ "data" \in DOMAIN response.d
                        /\ \/ response.d["data"] = PyStr("")
                           \/ response.d["data"] = PyDict(<<>>)
           IN  IF "data" \in DOMAIN response.d /\ ~empty
                   THEN last.outcome = Raise(TypeError)
                   ELSE last.outcome = Return(PyList(<<>>))

\* the parser was given a string for data and raised TypeError
C25_Witness ==
    /\ last.op = "parse_models"
    /\ last.args.parser.cls = "OpenRouterParser"
    /\ last.args.response = PyDict([data |-> PyStr("not_a_list")])
    /\ last.outcome = Raise(TypeError)

\* the number a credits mapping gives for a field: its value, 0 when it is missing
FieldOrZero(data, key) == IF key \in DOMAIN data.d THEN data.d[key].n ELSE 0

\* a field of a credits mapping is missing or a number
NumberOrMissing(data, key) == key \in DOMAIN data.d => data.d[key].py = "int"

\* the data of a credits response, the empty mapping when the key is missing
CreditsData(response) ==
    IF "data" \in DOMAIN response.d THEN response.d["data"] ELSE PyDict(<<>>)

FailedAfterLookup(r, sent, ops) ==
    /\ r.op = "get_models"
    /\ r.outcome.kind = "raise"
    /\ sent # <<>>
    /\ \A i \in DOMAIN ops : ops[i] # "set"

\* what CacheManager.get of the provider's own manager gives for its name
Served(provider, fs, t) ==
    CacheManager_get(provider.cache_manager, fs, t, provider.provider_name_value)

\* the provider's cache holds an entry that get serves
HoldsValid(provider, fs, t) ==
    /\ Served(provider, fs, t).kind = "return"
    /\ Served(provider, fs, t).value # None

\* C27: a get_models that fails after the cache lookup (status not 2xx, transport
\* failure, undecodable body or parser fault) leaves every cache file as it was:
\* no entry is created, overwritten or deleted; and a get_models(use_cache=True)
\* that follows it is served the entry the cache still validly holds, without a
\* request.
C27_FailureKeepsCache ==
    [][/\ FailedAfterLookup(last', http', cache_ops') => (files' = files /\ entry' = entry)
       /\ (/\ FailedAfterLookup(last, http, cache_ops)
           /\ HoldsValid(self, files, now)
           /\ last'.op = "get_models" /\ last'.args.use_cache)
              => (/\ last'.outcome = Served(self, files, now)
                  /\ http' = <<>>
                  /\ files' = files)]_vars

\* a get_models(use_cache=False) failed after its request while the cache held a
\* valid entry, which it still holds
C27_Witness ==
    /\ self # NoProvider
    /\ FailedAfterLookup(last, http, cache_ops)
    /\ ~last.args.use_cache
    /\ HoldsValid(self, files, now)
    /\ Len(Served(self, files, now).value.items) > 0

(***************************************************************************)
(* Who writes the user catalog (SpecRegistry).                             *)
(***************************************************************************)
\* the plugin file exists and validate_provider_config accepts its content
PluginAccepted(plugin) ==
    /\ plugin # NoPlugin
    /\ validate_provider_config(plugin).kind = "return"
    /\ validate_provider_config(plugin).value.is_valid

\* get_models(use_cache=False) of the provider built from the plugin returned for
\* some response, leaving the cache files fs2 and the requests sent
FetchSucceeded(plugin, api_key, env, fs, t, fs2, sent) ==
    LET created == _create_provider_from_config(plugin, api_key, env) IN
    /\ created.kind = "return"
    /\ \E response \in ImportResponses, io \in ImportSetIO :
           LET fetched == GenericProvider_get_models(created.value, fs, t, FALSE, response, io)
           IN  /\ fetched.outcome.kind = "return"
               /\ fetched.files = fs2
               /\ fetched.http = sent

\* C28: the user catalog changes only in an import-provider run in which the
\* plugin file exists, validation passes and get_models(use_cache=False) has
\* succeeded, so the write is the run's last step; test-provider, and every
\* import-provider run that ends at an earlier step, leave the user catalog
\* unchanged.
C28_CatalogWriter ==
    [][/\ catalogs'.user # catalogs.user
            => /\ last'.op = "import_provider"
               /\ PluginAccepted(last'.args.plugin)
               /\ FetchSucceeded(last'.args.plugin, last'.args.api_key, environ, files, now,
                                 files', http')
       /\ last'.op = "test_provider" => catalogs' = catalogs
       /\ (/\ last'.op = "import_provider"
           /\ \/ ~PluginAccepted(last'.args.plugin)
              \/ ~FetchSucceeded(last'.args.plugin, last'.args.api_key, environ, files, now,
                                 files', http'))
            => catalogs' = catalogs]_vars

\* an import of the custom plugin has completed and added the entry to a user
\* catalog that did not have it
C28_Witness ==
    /\ last.op = "import_provider"
    /\ last.outcome = Return(None)
    /\ last.args.plugin = CustomPlugin
    /\ "custom" \notin last.args.user_names
    /\ "custom" \in DOMAIN catalogs.user
    /\ catalogs.user["custom"] = CustomPlugin
    /\ http # <<>>

(***************************************************************************)
(* `list models` over all providers when one of them fails (SpecCli).      *)
(***************************************************************************)
\* the call r is a `list models` without --provider in which a get_models raised
AllModeFailed(r) ==
    /\ r.op = "list_models"
    /\ r.provider = ""
    /\ \E i \in DOMAIN r.args.fetched : r.args.fetched[i].outcome.kind = "raise"

\* the URL of the models request of the provider the registry builds for a name
ModelsUrl(cats, env, name) ==
    LET provider == get_providers(cats, env).value[name] IN
    provider.base_url \o provider.models_endpoint

\* C29: when, in `list models` without --provider, a get_models raises, the
\* providers were queried in the order of the registry up to that one and no
\* further: no request goes to a later provider and its cache file is untouched;
\* nothing is rendered and the exit code is 1; the cache entry of every provider
\* fetched before the failure is in place and serves what the provider returned.
C29_StopsAtFirstFailure ==
    [][(AllModeFailed(last') /\ now' = now)
        => LET fetched == last'.args.fetched
               n == Len(fetched)
               order == items_order(catalogs)
               providers == get_providers(catalogs, environ).value
           IN  /\ n <= Len(order)
               /\ \A i \in 1..n : fetched[i].provider = order[i]
               /\ \A i \in 1..(n - 1) : fetched[i].outcome.kind = "return"
               /\ fetched[n].outcome.kind = "raise"
               /\ \A i \in (n + 1)..Len(order) :
                      /\ files'[_get_cache_file(order[i])] = files[_get_cache_file(order[i])]
                      /\ \A k \in DOMAIN http' :
                             http'[k].url # ModelsUrl(catalogs, environ, order[i])
               /\ last'.args.stdout = <<>>
               /\ exit_code(last'.outcome) = 1
               /\ \A i \in 1..(n - 1) :
                      CacheManager_get(providers[order[i]].cache_manager, files', now', order[i])
                          = fetched[i].outcome]_vars

\* `list models --force` over groq and openrouter: groq returned two models,
\* which its cache entry holds, and openrouter raised
C29_Witness ==
    /\ AllModeFailed(last)
    /\ last.args.force
    /\ Len(last.args.fetched) = 2
    /\ last.args.fetched[1].provider = "groq"
    /\ Len(last.args.fetched[1].outcome.value.items) = 2
    /\ files[_get_cache_file("groq")] # NoFile
    /\ files[_get_cache_file("openrouter")] = NoFile
    /\ last.args.stdout = <<>>
    /\ Len(http) = 2

\* `list models` over groq and openrouter: groq raised and openrouter, whose key
\* is set, was not queried
C29_FirstFails ==
    /\ AllModeFailed(last)
    /\ Len(last.args.fetched) = 1
    /\ "OPENROUTER_API_KEY" \in DOMAIN environ
    /\ Len(http) = 1

(***************************************************************************)
(* The cache entries of different providers (SpecCache).                   *)
(***************************************************************************)
\* what get(q) gives in the file system fs at time t
GetOf(fs, t, q) == CacheManager_get(CacheManager(ttl_hours_default), fs, t, q)

\* C30: a set, an invalidate or a get of the cache manager for a provider p,
\* whether it succeeds or fails, leaves the cache file of every other provider q
\* as it was, and with it the result of get(q).
C30_Isolation ==
    [][(last'.op \in {"set", "invalidate", "get"} /\ now' = now)
        => \A q \in ProviderNames \ {last'.provider} :
               /\ files'[_get_cache_file(q)] = files[_get_cache_file(q)]
               /\ GetOf(files', now', q) = GetOf(files, now, q)]_vars

\* a set for groq has been made while the cache served a list of models for
\* openrouter, which it still serves; groq's entry holds another list
C30_Witness ==
    /\ last.op = "set"
    /\ last.provider = "groq"
    /\ last.outcome.kind = "return"
    /\ GetOf(files, now, "openrouter").kind = "return"
    /\ GetOf(files, now, "openrouter").value # None
    /\ GetOf(files, now, "groq").kind = "return"
    /\ GetOf(files, now, "groq").value # None
    /\ GetOf(files, now, "groq") # GetOf(files, now, "openrouter")

====
